---- MODULE Spec2Model ----
(***************************************************************************)
(* Model of the two audit/preflight runners of the repository:             *)
(*   scripts/dev-audit.sh  (src/unnamed/part_000)                          *)
(*   scripts/preflight.sh  (src/scripts/preflight.sh)                      *)
(* Both run under `set -euo pipefail`.  One run of one script is one       *)
(* behaviour: argument loop, static checks over index.html and the site    *)
(* tree, optional server spawn, readiness poll, smoke tests, idle loop.    *)
(* index.html is a sequence of lines; a line is a bag of the substrings    *)
(* the scripts' grep patterns look for, so that line-oriented grep (-c,    *)
(* -v, -q) and occurrence-oriented grep (-o) are computed as grep does.    *)
(***************************************************************************)
EXTENDS Integers, Sequences, FiniteSets, TLC

VARIABLES
    script,      \* which of the two scripts is running
    trap,        \* handler registered for EXIT INT TERM ("none" or "cleanup")
    args,        \* "$@": the arguments not yet shifted away
    pc,          \* position of the shell in the script
    MODE, NO_DEV, SHOW_LOGS, TIMEOUT,
    index,       \* lines of index.html
    files,       \* regular files that exist under the site root
    large,       \* files larger than 300KB
    cmds,        \* commands that `command -v` finds
    ran,         \* checks executed so far, in order
    out,         \* lines printed so far, as <<kind, message, subject>>
    server,      \* the spawned server process: "none", "running", "killed"
    DEV_PID,     \* shell variable DEV_PID: Unset, "" or a pid
    tries,       \* loop counter of the readiness poll (i / t)
    ready,       \* a readiness probe has succeeded in this run
    reqs,        \* smoke-test paths requested so far, in order
    exitStatus,  \* exit status of the tool, meaningful once pc = "exited"
    sigCount,    \* signals delivered to the tool so far
    spawned,     \* server commands launched so far, in order
    kills        \* times kill_pid has signalled the server process

auditVars == <<script, trap, args, pc, MODE, NO_DEV, SHOW_LOGS, TIMEOUT,
               index, files, large, cmds, ran, out, server, DEV_PID, tries,
               ready, reqs, exitStatus, sigCount, spawned, kills>>

\* --------------------------------------- a second run of the same script
VARIABLES
    run,           \* 1 in the first run of the script, 2 in the second
    argv,          \* the arguments the script was started with
    firstOut,      \* what the first run printed
    firstStatus    \* exit status of the first run

rerunVars == <<run, argv, firstOut, firstStatus>>

\* ------------------------------------------------------ the other programs
\* One record a program, holding its variables and everything of its
\* environment it reads or writes; Off while the program is not the one run.
VARIABLES
    fetchLogos,      \* scripts/fetch-logos.sh     (src/unnamed/part_007)
    moveConsulting,  \* scripts/move-consulting.sh (src/archive/script.sh)
    hubspot,         \* assets/hubspot.js          (src/unnamed/part_002)
    themeToggle,     \* theme toggle               (src/unnamed/part_003)
    contact          \* api/contact.js             (src/unnamed/part_006)

toolVars == <<fetchLogos, moveConsulting, hubspot, themeToggle, contact>>

vars == <<auditVars, rerunVars, toolVars>>

\* What a step of dev-audit.sh or preflight.sh leaves alone.
exceptAudit == <<rerunVars, toolVars>>

Off == [pc |-> "off"]

ToolsOff ==
    /\ fetchLogos = Off
    /\ moveConsulting = Off
    /\ hubspot = Off
    /\ themeToggle = Off
    /\ contact = Off

\* The state of the second-run record during a single run.
RerunIdle ==
    /\ run = 1
    /\ argv = <<>>
    /\ firstOut = <<>>
    /\ firstStatus = 0

\* ---------------------------------------------------------------- bounds
MaxArgs == 2       \* longest argument list
MaxDefects == 2    \* how many features of the site differ from the valid one
MaxSignals == 1    \* signals delivered during one run

\* ------------------------------------------------------------- constants
Unset == "unset"
ServerPid == "srv"
NoPid == "nopid"
SIGINT == 2
SIGTERM == 15
POLL_ATTEMPTS == 30
DEFAULT_TIMEOUT == 12

Scripts == {"devaudit", "preflight"}

Last(s) == s[Len(s)]

\* ------------------------------------------------------------ index.html
\* A line is a function from the substrings present on it to their number
\* of occurrences on that line.
Cnt(line, tok) == IF tok \in DOMAIN line THEN line[tok] ELSE 0

Has(line, tok) == Cnt(line, tok) > 0

RECURSIVE SumSeq(_)
SumSeq(s) == IF s = <<>> THEN 0 ELSE Head(s) + SumSeq(Tail(s))

\* grep -c PATTERN: the number of LINES that match
GrepC(doc, tok) == Cardinality({n \in DOMAIN doc : Has(doc[n], tok)})

\* grep -q / grep -n ... >/dev/null: is there a matching line
GrepQ(doc, tok) == \E n \in DOMAIN doc : Has(doc[n], tok)

\* grep -o PATTERN | wc -l: the number of OCCURRENCES
GrepO(doc, tok) == SumSeq([n \in DOMAIN doc |-> Cnt(doc[n], tok)])

\* Substrings of index.html the patterns of the two scripts can match.
Tokens == {"doctype", "htmlend", "artifact", "endguard", "title_full",
           "title_open", "desc", "canonical", "robots", "og_title",
           "og_description", "og_image", "twitter_card", "jsonld",
           "html_lang_en", "html_lang_other", "h1", "img", "alt", "hero",
           "width", "calendly_placeholder", "ref_base_css", "ref_main_js",
           "ref_nowhere", "ref_gone", "ldjson"}

\* The absolute path an href/src substring refers to.
RefPath(tok) == CASE tok = "ref_base_css" -> "/css/base.css"
                  [] tok = "ref_main_js" -> "/js/main.js"
                  [] tok = "ref_nowhere" -> "/css/nowhere.css"
                  [] tok = "ref_gone" -> "/js/gone.js"

RefTokens == {"ref_base_css", "ref_main_js", "ref_nowhere", "ref_gone"}

\* The reference document: a complete, valid page.  Its last line is empty.
\* "jsonld" is a <script type="application/ld+json"> tag; "ldjson" is text
\* the basic regular expression 'application/ld\+json' matches, in which
\* \+ repeats the d (application/ldjson) and does not match a plus sign.
BaseDoc == << {"doctype"},
             {"html_lang_en"},
             {"title_full"},
             {"desc", "canonical", "robots", "og_title", "og_description",
              "og_image", "twitter_card", "jsonld", "ref_base_css",
              "ref_main_js"},
             {"h1"},
             {"img", "alt", "hero", "width"},
             {"htmlend"},
             {"endguard"},
             {} >>

TailLine == Len(BaseDoc)

BaseLine(n) == IF n \in DOMAIN BaseDoc THEN BaseDoc[n] ELSE {}

\* Ways a document differs from the reference one: a substring removed
\* everywhere, or one more occurrence of a substring on a given line.
Del(tok) == [op |-> "del", tok |-> tok, at |-> 0]

Add(tok, n) == [op |-> "add", tok |-> tok, at |-> n]

DocDefects ==
    {Del(t) : t \in {"doctype", "htmlend", "endguard", "title_full", "desc",
                     "canonical", "robots", "og_title", "og_description",
                     "og_image", "twitter_card", "jsonld", "html_lang_en",
                     "h1", "alt", "width"}}
    \cup {Add("doctype", 1), Add("htmlend", 7), Add("h1", 5), Add("img", 6)}
    \cup {Add(t, TailLine) : t \in {"doctype", "htmlend", "h1", "img",
                                    "artifact", "calendly_placeholder"}}
    \cup {Add("html_lang_other", 2), Add("title_open", 3),
          Add("ref_nowhere", 4), Add("ref_gone", 4), Add("ldjson", 4)}

DocCount(D, n, tok) ==
    (IF Del(tok) \in D \/ tok \notin BaseLine(n) THEN 0 ELSE 1)
    + (IF Add(tok, n) \in D THEN 1 ELSE 0)

DocOf(D) ==
    [n \in 1..TailLine |->
        [tok \in {t \in Tokens : DocCount(D, n, t) > 0} |-> DocCount(D, n, tok)]]

\* ------------------------------------------------------------- site tree
REQ_FILES == <<"index.html", "robots.txt", "sitemap.xml", "site.webmanifest",
               "css/reset.css", "css/tokens.css", "css/base.css",
               "css/layout.css", "css/components.css", "css/effects.css",
               "js/main.js", "js/a11y.js", "js/parallax.js",
               "downloads/jeffrey-plewak-resume.pdf",
               "downloads/jeffrey-plewak.vcf", "assets/favicon.png",
               "assets/icon-192.png", "assets/icon-512.png",
               "assets/images/og-image.png",
               "assets/images/jeffrey-plewak-portrait.jpg",
               "assets/images/jeffrey-plewak-portrait.webp",
               "assets/images/jeffrey-plewak-portrait.avif">>

REQUIRED == <<"robots.txt", "sitemap.xml", "css/base.css", "js/main.js",
              "assets/favicon.png">>

Range(s) == {s[n] : n \in DOMAIN s}

BaseFiles == Range(REQ_FILES) \cup {"vercel.json", "build.sh"}

\* Files whose absence the runs explore.
MissingCandidates == {"robots.txt", "css/reset.css", "css/base.css", "js/main.js"}

Rm(f) == [op |-> "rm", tok |-> f, at |-> 0]

Mk(f) == [op |-> "mk", tok |-> f, at |-> 0]

Big(f) == [op |-> "big", tok |-> f, at |-> 0]

FileDefects ==
    {Rm(f) : f \in MissingCandidates \cup {"vercel.json", "build.sh"}}
    \cup {Mk("package.json"), Big("assets/images/og-image.png")}

FilesOf(D) ==
    (BaseFiles \ {f \in BaseFiles : Rm(f) \in D})
    \cup {f \in {"package.json"} : Mk(f) \in D}

LargeOf(D) == {f \in BaseFiles : Big(f) \in D}

Defects == DocDefects \cup FileDefects

RECURSIVE KSubsets(_, _)
KSubsets(S, k) ==
    IF k = 0 THEN {{}}
    ELSE LET P == KSubsets(S, k - 1) IN P \cup {p \cup {x} : p \in P, x \in S}

DefectSets == KSubsets(Defects, MaxDefects)

\* --------------------------------------------------------- command line
ArgTokens == {"--audit", "--dev", "--port", "--yes", "--no-dev", "--logs",
              "--timeout", "-h", "--help", "--bogus", "2"}

RECURSIVE SeqsUpTo(_, _)
SeqsUpTo(S, k) ==
    IF k = 0 THEN {<<>>}
    ELSE LET P == SeqsUpTo(S, k - 1) IN P \cup {Append(p, x) : p \in P, x \in S}

ArgLists == SeqsUpTo(ArgTokens, MaxArgs)

\* ----------------------------------------------------------- environment
Baseline == <<"bash", "grep", "sed", "awk", "find", "curl", "wc">>

AllCmds == Range(Baseline) \cup {"vercel", "python3"}

Envs == {AllCmds \ M : M \in SUBSET {"vercel", "python3", "curl"}}

IsNum(tok) == tok \in {"2", "12"}

Num(tok) == IF tok = "2" THEN 2 ELSE DEFAULT_TIMEOUT

\* ------------------------------------------------------------- start-up
FirstStep(sc) == IF sc = "devaudit" THEN "baseline_tools" ELSE "pf_structural"

\* Position after the argument loop has shifted down to `rest`.
AfterArgs(sc, rest) == IF rest = <<>> THEN FirstStep(sc) ELSE "args"

\* dev-audit.sh registers `trap cleanup EXIT INT TERM` before the argument
\* loop; preflight.sh registers no trap.
TrapOf(sc) == IF sc = "devaudit" THEN "cleanup" ELSE "none"

InitRun(sc, a, D, env) ==
    /\ script = sc
    /\ trap = TrapOf(sc)
    /\ args = a
    /\ pc = AfterArgs(sc, a)
    /\ MODE = "audit"
    /\ NO_DEV = 0
    /\ SHOW_LOGS = 0
    /\ TIMEOUT = "12"
    /\ index = DocOf(D)
    /\ files = FilesOf(D)
    /\ large = LargeOf(D)
    /\ cmds = env
    /\ ran = <<>>
    /\ out = <<>>
    /\ server = "none"
    /\ DEV_PID = Unset
    /\ tries = 0
    /\ ready = FALSE
    /\ reqs = <<>>
    /\ exitStatus = 0
    /\ sigCount = 0
    /\ spawned = <<>>
    /\ kills = 0

\* Argument lists the site-tree runs start from.
ModeArgs == {<<>>, <<"--dev">>}

\* Either any argument list in any command environment over the reference
\* site, or an audit/dev run over any site within MaxDefects of it.
Init ==
    /\ \E sc \in Scripts :
        \/ \E a \in ArgLists, env \in Envs : InitRun(sc, a, {}, env)
        \/ \E a \in ModeArgs, D \in DefectSets : InitRun(sc, a, D, AllCmds)
    /\ RerunIdle
    /\ ToolsOff

\* ------------------------------------------------------ exit and cleanup
\* kill_pid: signal the process only if the pid is non-empty and names a
\* live process (kill -0).
kill_pid(pid, srv) ==
    IF pid # "" /\ pid = ServerPid /\ srv = "running" THEN "killed" ELSE srv

\* cleanup: acts only when ${DEV_PID:-} is non-empty.
cleanup_srv(dp, srv) == IF dp \notin {Unset, ""} THEN kill_pid(dp, srv) ELSE srv

\* Signals cleanup sends through kill_pid: one round (TERM, then KILL if
\* the process is still there) when the kill -0 guard passes, else none.
cleanup_kills(dp, srv) == IF cleanup_srv(dp, srv) # srv THEN 1 ELSE 0

cleanup_out(dp, o) ==
    IF dp \notin {Unset, ""}
    THEN Append(o, <<"INFO", "Stopping local dev server", dp>>)
    ELSE o

\* The shell exits with `status` having printed `o` while the server
\* process is in state `srv` and has been signalled `k` times; the EXIT
\* trap, when registered, runs cleanup on the way out.
TerminateWith(status, o, srv, k) ==
    /\ pc' = "exited"
    /\ exitStatus' = status
    /\ out' = IF trap = "cleanup" THEN cleanup_out(DEV_PID, o) ELSE o
    /\ server' = IF trap = "cleanup" THEN cleanup_srv(DEV_PID, srv) ELSE srv
    /\ kills' = IF trap = "cleanup" THEN k + cleanup_kills(DEV_PID, srv) ELSE k

TerminateFrom(status, o, srv) == TerminateWith(status, o, srv, kills)

Terminate(status, o) == TerminateFrom(status, o, server)

\* Outcome of a piece of script: what it printed and whether the shell goes
\* on (go) or exits with status st.
Go(o) == [o |-> o, go |-> TRUE, st |-> 0]

Stop(o, status) == [o |-> o, go |-> FALSE, st |-> status]

ok(o, msg) == Append(o, <<"OK", msg, "">>)

warn(o, msg) == Append(o, <<"WARN", msg, "">>)

info(o, msg) == Append(o, <<"INFO", msg, "">>)

\* A fail that prints its message and returns instead of exiting.
fail_returns(o, msg, subj) == Go(Append(o, <<"FAIL", msg, subj>>))

\* fail / log_fail: print the message (which may name a subject), exit 1.
fail(o, msg, subj) == Stop(Append(o, <<"FAIL", msg, subj>>), 1)

usage(o) == Append(o, <<"USAGE", "usage", "">>)

\* -------------------------------------------------------- argument loop
\* One iteration of dev-audit.sh's `while [ $# -gt 0 ]` loop.  The value of
\* --port only parameterises the server command line and is not kept.
da_case(a, rest) ==
    CASE a = "--audit" -> [mode |-> "audit", nodev |-> NO_DEV, rest |-> rest, r |-> Go(out)]
      [] a = "--dev" -> [mode |-> "dev", nodev |-> NO_DEV, rest |-> rest, r |-> Go(out)]
      [] a = "--port" ->
            \* PORT="${2:-}"; shift; the loop's own shift then fails under
            \* errexit when no value followed.
            IF rest = <<>>
            THEN [mode |-> MODE, nodev |-> NO_DEV, rest |-> rest, r |-> Stop(out, 1)]
            ELSE [mode |-> MODE, nodev |-> NO_DEV, rest |-> Tail(rest), r |-> Go(out)]
      [] a = "--yes" -> [mode |-> MODE, nodev |-> NO_DEV, rest |-> rest, r |-> Go(out)]
      [] a = "--no-dev" -> [mode |-> MODE, nodev |-> 1, rest |-> rest, r |-> Go(out)]
      [] a \in {"-h", "--help"} ->
            [mode |-> MODE, nodev |-> NO_DEV, rest |-> rest, r |-> Stop(usage(out), 0)]
      [] OTHER ->
            [mode |-> MODE, nodev |-> NO_DEV, rest |-> rest, r |-> fail(out, "Unknown arg", a)]

da_parse_arg ==
    /\ script = "devaudit"
    /\ pc = "args"
    /\ LET c == da_case(Head(args), Tail(args)) IN
        IF c.r.go
        THEN /\ MODE' = c.mode
             /\ NO_DEV' = c.nodev
             /\ args' = c.rest
             /\ pc' = AfterArgs(script, c.rest)
             /\ UNCHANGED <<out, server, kills, exitStatus>>
        ELSE /\ Terminate(c.r.st, c.r.o)
             /\ UNCHANGED <<MODE, NO_DEV, args>>
    /\ UNCHANGED <<exceptAudit, spawned, script, trap, SHOW_LOGS, TIMEOUT, index, files, large, cmds,
                   ran, DEV_PID, tries, ready, reqs, sigCount>>

\* One iteration of preflight.sh's argument loop.  "$2" is expanded under
\* `set -u`, so --port / --timeout without a value abort the shell.
pf_case(a, rest) ==
    CASE a = "--audit" -> [mode |-> "audit", logs |-> SHOW_LOGS, timeout |-> TIMEOUT, rest |-> rest, r |-> Go(out)]
      [] a = "--dev" -> [mode |-> "dev", logs |-> SHOW_LOGS, timeout |-> TIMEOUT, rest |-> rest, r |-> Go(out)]
      [] a = "--port" ->
            IF rest = <<>>
            THEN [mode |-> MODE, logs |-> SHOW_LOGS, timeout |-> TIMEOUT, rest |-> rest, r |-> Stop(out, 1)]
            ELSE [mode |-> MODE, logs |-> SHOW_LOGS, timeout |-> TIMEOUT, rest |-> Tail(rest), r |-> Go(out)]
      [] a = "--logs" -> [mode |-> MODE, logs |-> 1, timeout |-> TIMEOUT, rest |-> rest, r |-> Go(out)]
      [] a = "--timeout" ->
            IF rest = <<>>
            THEN [mode |-> MODE, logs |-> SHOW_LOGS, timeout |-> TIMEOUT, rest |-> rest, r |-> Stop(out, 1)]
            ELSE [mode |-> MODE, logs |-> SHOW_LOGS, timeout |-> Head(rest), rest |-> Tail(rest), r |-> Go(out)]
      [] a = "--help" ->
            [mode |-> MODE, logs |-> SHOW_LOGS, timeout |-> TIMEOUT, rest |-> rest, r |-> Stop(usage(out), 0)]
      [] OTHER ->
            [mode |-> MODE, logs |-> SHOW_LOGS, timeout |-> TIMEOUT, rest |-> rest,
             r |-> Stop(usage(Append(out, <<"ECHO", "Unknown arg", a>>)), 1)]

pf_parse_arg ==
    /\ script = "preflight"
    /\ pc = "args"
    /\ LET c == pf_case(Head(args), Tail(args)) IN
        IF c.r.go
        THEN /\ MODE' = c.mode
             /\ SHOW_LOGS' = c.logs
             /\ TIMEOUT' = c.timeout
             /\ args' = c.rest
             /\ pc' = AfterArgs(script, c.rest)
             /\ UNCHANGED <<out, server, kills, exitStatus>>
        ELSE /\ Terminate(c.r.st, c.r.o)
             /\ UNCHANGED <<MODE, SHOW_LOGS, TIMEOUT, args>>
    /\ UNCHANGED <<exceptAudit, spawned, script, trap, NO_DEV, index, files, large, cmds, ran,
                   DEV_PID, tries, ready, reqs, sigCount>>

\* ------------------------------------------------- dev-audit.sh: checks
\* need_cmd for each baseline tool in turn, then `[ -f "$INDEX" ]`.
RECURSIVE need_cmds(_, _)
need_cmds(o, list) ==
    IF list = <<>> THEN Go(o)
    ELSE IF Head(list) \in cmds THEN need_cmds(o, Tail(list))
    ELSE fail(o, "Missing required command", Head(list))

baseline_tools_res ==
    LET r == need_cmds(out, Baseline) IN
    IF ~r.go THEN r
    ELSE IF "index.html" \notin files THEN fail(r.o, "index.html not found at repo root", "index.html")
    ELSE r

check_single_document_res ==
    LET o1 == info(out, "HTML structural checks")
        doctype == GrepC(index, "doctype")
        htmlend == GrepC(index, "htmlend")
    IN  IF doctype # 1 THEN fail(o1, "Expected exactly 1 <!doctype html>", "")
        ELSE IF htmlend # 1 THEN fail(o1, "Expected exactly 1 </html>", "")
        ELSE IF GrepQ(index, "artifact") THEN fail(o1, "Found citation artifacts", "")
        ELSE LET o2 == IF ~GrepQ(index, "endguard")
                       THEN warn(o1, "Missing END-OF-DOCUMENT guard comment")
                       ELSE o1
             IN  Go(ok(o2, "HTML structure clean"))

\* The lines `MISSING: f`, one for each manifest entry that is not a file.
RECURSIVE missing_lines(_, _)
missing_lines(o, list) ==
    IF list = <<>> THEN o
    ELSE missing_lines(IF Head(list) \notin files
                       THEN Append(o, <<"MISSING", "MISSING", Head(list)>>)
                       ELSE o,
                       Tail(list))

check_required_files_res ==
    LET o1 == info(out, "Required file presence checks")
        o2 == missing_lines(o1, REQ_FILES)
        missing == IF o2 = o1 THEN 0 ELSE 1
    IN  IF missing # 0 THEN fail(o2, "Missing required files (see list above)", "")
        ELSE Go(ok(o2, "All required files present"))

\* grep -oE '(href|src)="/..."' | sed | sort -u: the distinct absolute
\* paths referred to, in sorted order.
RefOrder == <<"ref_base_css", "ref_nowhere", "ref_gone", "ref_main_js">>

RefFile(tok) == CASE tok = "ref_base_css" -> "css/base.css"
                  [] tok = "ref_main_js" -> "js/main.js"
                  [] tok = "ref_nowhere" -> "css/nowhere.css"
                  [] tok = "ref_gone" -> "js/gone.js"

refs_of(doc) == SelectSeq(RefOrder, LAMBDA t : GrepQ(doc, t))

RECURSIVE broken_lines(_, _)
broken_lines(o, list) ==
    IF list = <<>> THEN o
    ELSE broken_lines(IF RefFile(Head(list)) \notin files
                      THEN Append(o, <<"BROKEN", "BROKEN", RefPath(Head(list))>>)
                      ELSE o,
                      Tail(list))

check_internal_refs_res ==
    LET o1 == info(out, "Internal href/src references resolve to real files")
        o2 == broken_lines(o1, refs_of(index))
        bad == IF o2 = o1 THEN 0 ELSE 1
    IN  IF bad # 0 THEN fail(o2, "Broken internal asset references (see above)", "")
        ELSE Go(ok(o2, "All internal href/src references resolve"))

\* `grep -qi PATTERN || warn MSG` for each advisory pattern in turn.
RECURSIVE warn_absent(_, _)
warn_absent(o, list) ==
    IF list = <<>> THEN o
    ELSE warn_absent(IF ~GrepQ(index, Head(list)[1]) THEN warn(o, Head(list)[2]) ELSE o,
                     Tail(list))

SeoAdvisories == << <<"canonical", "Missing canonical link">>,
                    <<"robots", "Missing robots meta">>,
                    <<"og_title", "Missing og:title">>,
                    <<"og_description", "Missing og:description">>,
                    <<"og_image", "Missing og:image">>,
                    <<"twitter_card", "Missing twitter:card">>,
                    <<"ldjson", "Missing JSON-LD schema script">> >>

check_seo_basics_res ==
    LET o1 == info(out, "SEO checks") IN
    \* '<title>.*</title>' needs the opening and the closing tag on one line
    IF ~GrepQ(index, "title_full") THEN fail(o1, "Missing <title>", "")
    ELSE IF ~GrepQ(index, "desc") THEN fail(o1, "Missing meta description", "")
    ELSE Go(ok(warn_absent(o1, SeoAdvisories), "SEO baseline present"))

\* h1count="$(grep -io '<h1' | wc -l | tr -d ' ')": under pipefail the
\* pipeline, and so the assignment, has grep's status, which is 1 when
\* nothing matches; errexit then ends the shell.
h1_pipeline(doc) ==
    LET n == GrepO(doc, "h1") IN [count |-> n, status |-> IF n = 0 THEN 1 ELSE 0]

\* grep -n '<img' | grep -v 'alt=': some line has an img and no alt=
img_line_without_alt(doc) ==
    \E n \in DOMAIN doc : Has(doc[n], "img") /\ ~Has(doc[n], "alt")

check_accessibility_basics_res ==
    LET o1 == info(out, "A11y checks")
        o2 == IF ~GrepQ(index, "html_lang_en") THEN warn(o1, "Missing lang=en on <html>") ELSE o1
        h == h1_pipeline(index)
    IN  IF h.status # 0 THEN Stop(o2, h.status)
        ELSE LET o3 == IF h.count # 1 THEN warn(o2, "Expected 1 <h1>") ELSE o2
                 o4 == IF img_line_without_alt(index)
                       THEN warn(o3, "Found <img> without alt attribute")
                       ELSE o3
             IN  Go(ok(o4, "A11y baseline ok"))

\* Manifest entries under assets/ and downloads/, the directories `find`
\* walks; both exist once the required files check has passed.
AssetFiles == Range(SubSeq(REQ_FILES, 14, 22))

check_perf_risks_res ==
    LET o1 == info(out, "Performance risk checks")
        nlarge == Cardinality(large \cap files \cap AssetFiles)
        o2 == IF nlarge # 0 THEN warn(o1, "Found asset(s) >300KB")
              ELSE ok(o1, "No assets over 300KB")
        hero_ok == \E n \in DOMAIN index : Has(index[n], "hero") /\ Has(index[n], "width")
    IN  Go(IF ~hero_ok THEN warn(o2, "Hero avatar missing explicit width/height")
           ELSE ok(o2, "Hero avatar has explicit dimensions"))

check_calendly_placeholder_res ==
    LET o1 == info(out, "Calendly placeholder check") IN
    Go(IF GrepQ(index, "calendly_placeholder")
       THEN warn(o1, "Calendly URL is still placeholder")
       ELSE ok(o1, "Calendly URL looks non-placeholder"))

check_vercel_config_res ==
    LET o1 == info(out, "Vercel config checks")
        o2 == IF "vercel.json" \in files THEN ok(o1, "vercel.json present")
              ELSE warn(o1, "vercel.json missing")
        o3 == IF "build.sh" \in files THEN ok(o2, "build.sh present")
              ELSE warn(o2, "build.sh missing")
    IN  Go(IF "package.json" \in files THEN warn(o3, "package.json present") ELSE o3)

\* After the last check: `if [ "$MODE" = "dev" ]` ... else `ok "Audit complete"`
\* and the script ends with status 0.
da_run_mode(r) ==
    IF r.go /\ MODE # "dev" THEN Stop(ok(r.o, "Audit complete"), 0) ELSE r

\* A step of the run section that also leaves a file behind in the tree.
da_step_writes(name, r, next, isCheck) ==
    /\ script = "devaudit"
    /\ pc = name
    /\ ran' = IF isCheck THEN Append(ran, name) ELSE ran
    /\ files' = files \cup {"package.json"}
    /\ IF r.go
       THEN /\ pc' = next
            /\ out' = r.o
            /\ UNCHANGED <<server, kills, exitStatus>>
       ELSE Terminate(r.st, r.o)
    /\ UNCHANGED <<exceptAudit, spawned, script, trap, args, MODE, NO_DEV, SHOW_LOGS, TIMEOUT, index,
                   large, cmds, DEV_PID, tries, ready, reqs, sigCount>>

\* One step of the run section: the shell is at `name`, the step's outcome
\* is r, and `next` follows when the shell goes on.
da_step(name, r, next, isCheck) ==
    /\ script = "devaudit"
    /\ pc = name
    /\ ran' = IF isCheck THEN Append(ran, name) ELSE ran
    /\ IF r.go
       THEN /\ pc' = next
            /\ out' = r.o
            /\ UNCHANGED <<server, kills, exitStatus>>
       ELSE Terminate(r.st, r.o)
    /\ UNCHANGED <<exceptAudit, spawned, script, trap, args, MODE, NO_DEV, SHOW_LOGS, TIMEOUT, index,
                   files, large, cmds, DEV_PID, tries, ready, reqs, sigCount>>

baseline_tools ==
    da_step("baseline_tools", baseline_tools_res, "check_single_document", FALSE)

check_single_document ==
    da_step("check_single_document", check_single_document_res, "check_required_files", TRUE)

check_required_files ==
    da_step("check_required_files", check_required_files_res, "check_internal_refs", TRUE)

check_internal_refs ==
    da_step("check_internal_refs", check_internal_refs_res, "check_seo_basics", TRUE)

check_seo_basics ==
    da_step("check_seo_basics", check_seo_basics_res, "check_accessibility_basics", TRUE)

check_accessibility_basics ==
    da_step("check_accessibility_basics", check_accessibility_basics_res, "check_perf_risks", TRUE)

check_perf_risks ==
    da_step("check_perf_risks", check_perf_risks_res, "check_calendly_placeholder", TRUE)

check_calendly_placeholder ==
    da_step("check_calendly_placeholder", check_calendly_placeholder_res, "check_vercel_config", TRUE)

check_vercel_config ==
    da_step("check_vercel_config", da_run_mode(check_vercel_config_res), "start_dev_server", TRUE)


\* -------------------------------------------------- preflight.sh: checks
pf_structural_res ==
    LET o1 == info(out, "Checking index.html structural integrity")
        doc_count == GrepC(index, "doctype")
        end_count == GrepC(index, "htmlend")
    IN  IF doc_count # 1 THEN fail(o1, "Expected single doctype", "")
        ELSE IF end_count # 1 THEN fail(o1, "Expected one </html>", "")
        ELSE Go(ok(o1, "HTML structure valid"))

\* `for f in $REQUIRED; do [ -f "$ROOT/$f" ] || log_fail ...`
RECURSIVE pf_first_missing(_, _)
pf_first_missing(o, list) ==
    IF list = <<>> THEN Go(o)
    ELSE IF Head(list) \notin files THEN fail(o, "Missing required", Head(list))
    ELSE pf_first_missing(o, Tail(list))

pf_required_res ==
    LET r == pf_first_missing(info(out, "Checking required files"), REQUIRED) IN
    IF r.go THEN Go(ok(r.o, "Required files present")) ELSE r

\* `for r in $refs; do [ -f ".$r" ] || log_fail "Broken ref: $r"`
RECURSIVE pf_first_broken(_, _)
pf_first_broken(o, list) ==
    IF list = <<>> THEN Go(o)
    ELSE IF RefFile(Head(list)) \notin files THEN fail(o, "Broken ref", RefPath(Head(list)))
    ELSE pf_first_broken(o, Tail(list))

pf_refs_res ==
    LET r == pf_first_broken(info(out, "Checking internal href/src refs"), refs_of(index)) IN
    IF r.go THEN Go(ok(r.o, "Internal refs resolve")) ELSE r

pf_seo_res ==
    LET o1 == info(out, "Checking SEO meta") IN
    \* '<title>' matches the opening tag alone
    IF ~(GrepQ(index, "title_full") \/ GrepQ(index, "title_open")) THEN fail(o1, "Missing <title>", "")
    ELSE IF ~GrepQ(index, "desc") THEN fail(o1, "Missing meta description", "")
    ELSE Go(ok(o1, "Title + description present"))

pf_a11y_res ==
    LET o1 == info(out, "Checking a11y basics")
        o2 == IF ~(GrepQ(index, "html_lang_en") \/ GrepQ(index, "html_lang_other"))
              THEN warn(o1, "Missing lang attribute")
              ELSE o1
        h == h1_pipeline(index)
    IN  IF h.status # 0 THEN Stop(o2, h.status)
        ELSE LET o3 == IF h.count # 1 THEN warn(o2, "Expected 1 H1") ELSE o2
                 \* grep -q 'alt=': any line at all carrying alt=
                 o4 == IF ~GrepQ(index, "alt") THEN warn(o3, "Missing alt on images") ELSE o3
             IN  Go(ok(o4, "A11y basics checked"))

pf_calendly_res ==
    Go(IF GrepQ(index, "calendly_placeholder")
       THEN warn(out, "Replace Calendly placeholder")
       ELSE ok(out, "Calendly link non-placeholder"))

\* After the last audit: the dev block, or the end of the script, whose
\* status is that of the `if` whose condition was false.
pf_run_mode(r) == IF r.go /\ MODE # "dev" THEN Stop(r.o, 0) ELSE r

pf_step(name, r, next) ==
    /\ script = "preflight"
    /\ pc = name
    /\ ran' = Append(ran, name)
    /\ IF r.go
       THEN /\ pc' = next
            /\ out' = r.o
            /\ UNCHANGED <<server, kills, exitStatus>>
       ELSE Terminate(r.st, r.o)
    /\ UNCHANGED <<exceptAudit, spawned, script, trap, args, MODE, NO_DEV, SHOW_LOGS, TIMEOUT, index,
                   files, large, cmds, DEV_PID, tries, ready, reqs, sigCount>>

pf_structural == pf_step("pf_structural", pf_structural_res, "pf_required")

pf_required == pf_step("pf_required", pf_required_res, "pf_refs")

pf_refs == pf_step("pf_refs", pf_refs_res, "pf_seo")

pf_seo == pf_step("pf_seo", pf_seo_res, "pf_a11y")

pf_a11y == pf_step("pf_a11y", pf_a11y_res, "pf_calendly")

pf_calendly == pf_step("pf_calendly", pf_run_mode(pf_calendly_res), "start_server")

\* ------------------------------------------------------- server launch
\* Both scripts start the server as `(server ... &) || true`: the `&` is
\* executed by a subshell, so the script's own shell has started no
\* asynchronous job and its $! names no process.
LastAsyncPid == NoPid

\* What DEV_PID=$! does under `set -u`: with no asynchronous job $! is
\* unset, which the shell either reports as an unbound variable (and
\* exits) or expands to the empty string, depending on the bash release.
BangOutcomes == IF LastAsyncPid = NoPid THEN {"unbound", ""} ELSE {LastAsyncPid}

\* Spawn the server with `tool`, assign DEV_PID=$!, go on to the readiness
\* poll.
spawn_and_poll(o, tool) ==
    /\ spawned' = Append(spawned, tool)
    /\ \E b \in BangOutcomes :
        IF b = "unbound"
        THEN /\ TerminateFrom(1, o, "running")
             /\ UNCHANGED DEV_PID
        ELSE /\ server' = "running"
             /\ DEV_PID' = b
             /\ pc' = "poll"
             /\ out' = o
             /\ UNCHANGED <<exitStatus, kills>>

\* A launcher without the final `else fail`: with neither tool installed
\* it falls through to the readiness poll.
start_dev_server_no_else ==
    /\ script = "devaudit"
    /\ pc = "start_dev_server"
    /\ IF NO_DEV = 1
       THEN /\ out' = warn(out, "--no-dev set; skipping server start")
            /\ pc' = "smoke"
            /\ UNCHANGED <<server, kills, DEV_PID, exitStatus, spawned>>
       ELSE IF "vercel" \in cmds
       THEN spawn_and_poll(info(out, "Starting Vercel dev"), "vercel")
       ELSE LET o1 == warn(out, "Vercel CLI not found. Fallback to python http.server") IN
            IF "python3" \in cmds
            THEN spawn_and_poll(o1, "python3")
            ELSE /\ out' = o1
                 /\ pc' = "poll"
                 /\ UNCHANGED <<server, kills, DEV_PID, exitStatus, spawned>>
    /\ UNCHANGED <<exceptAudit, script, trap, args, MODE, NO_DEV, SHOW_LOGS, TIMEOUT, index,
                   files, large, cmds, ran, tries, ready, reqs, sigCount>>

start_dev_server ==
    /\ script = "devaudit"
    /\ pc = "start_dev_server"
    /\ IF NO_DEV = 1
       THEN /\ out' = warn(out, "--no-dev set; skipping server start")
            /\ pc' = "smoke"
            /\ UNCHANGED <<server, kills, DEV_PID, exitStatus, spawned>>
       ELSE IF "vercel" \in cmds
       THEN spawn_and_poll(info(out, "Starting Vercel dev"), "vercel")
       ELSE LET o1 == warn(out, "Vercel CLI not found. Fallback to python http.server") IN
            IF "python3" \in cmds
            THEN spawn_and_poll(o1, "python3")
            ELSE /\ Terminate(1, fail(o1, "Neither vercel nor python3 available to run a local server.", "").o)
                 /\ UNCHANGED <<DEV_PID, spawned>>
    /\ UNCHANGED <<exceptAudit, script, trap, args, MODE, NO_DEV, SHOW_LOGS, TIMEOUT, index,
                   files, large, cmds, ran, tries, ready, reqs, sigCount>>

\* A launcher that tests the two tools independently (if ... fi; if ... fi
\* in place of if ... elif) and so starts both when both are installed.
start_server_both ==
    /\ script = "preflight"
    /\ pc = "start_server"
    /\ LET o1 == info(out, "Starting dev server") IN
       IF "vercel" \in cmds /\ "python3" \in cmds
       THEN /\ spawned' = <<"vercel", "python3">>
            /\ server' = "running"
            /\ DEV_PID' = ""
            /\ pc' = "poll"
            /\ out' = info(info(o1, "Using Vercel CLI"), "Falling back to python3 http.server")
            /\ UNCHANGED <<exitStatus, kills>>
       ELSE IF "vercel" \in cmds
       THEN spawn_and_poll(info(o1, "Using Vercel CLI"), "vercel")
       ELSE IF "python3" \in cmds
       THEN spawn_and_poll(info(o1, "Falling back to python3 http.server"), "python3")
       ELSE /\ Terminate(1, fail(o1, "No server tool (vercel or python3) found", "").o)
            /\ UNCHANGED <<DEV_PID, spawned>>
    /\ UNCHANGED <<exceptAudit, script, trap, args, MODE, NO_DEV, SHOW_LOGS, TIMEOUT, index,
                   files, large, cmds, ran, tries, ready, reqs, sigCount>>

start_server ==
    /\ script = "preflight"
    /\ pc = "start_server"
    /\ LET o1 == info(out, "Starting dev server") IN
       IF "vercel" \in cmds
       THEN spawn_and_poll(info(o1, "Using Vercel CLI"), "vercel")
       ELSE IF "python3" \in cmds
       THEN spawn_and_poll(info(o1, "Falling back to python3 http.server"), "python3")
       ELSE /\ Terminate(1, fail(o1, "No server tool (vercel or python3) found", "").o)
            /\ UNCHANGED <<DEV_PID, spawned>>
    /\ UNCHANGED <<exceptAudit, script, trap, args, MODE, NO_DEV, SHOW_LOGS, TIMEOUT, index,
                   files, large, cmds, ran, tries, ready, reqs, sigCount>>

\* ------------------------------------------------------ readiness poll
\* Answers a probe of the server root can get: curl succeeds only when it
\* is installed and the server process is up and already listening.
ProbeAnswers == IF "curl" \in cmds /\ server = "running" THEN {TRUE, FALSE} ELSE {FALSE}

\* A readiness poll whose timeout does not end the run: it goes on to the
\* smoke tests without a successful probe.
da_poll_timeout_continues ==
    /\ script = "devaudit"
    /\ pc = "poll"
    /\ \E answer \in ProbeAnswers :
        IF answer
        THEN /\ out' = ok(out, "Server responsive")
             /\ ready' = TRUE
             /\ tries' = 0
             /\ pc' = "smoke"
             /\ UNCHANGED <<server, kills, exitStatus>>
        ELSE IF tries + 1 < POLL_ATTEMPTS
        THEN /\ tries' = tries + 1
             /\ UNCHANGED <<out, ready, pc, server, kills, exitStatus>>
        ELSE /\ out' = fail_returns(Append(out, <<"LOG", "server log", "">>),
                                    "Server did not become ready", "").o
             /\ pc' = "smoke"
             /\ UNCHANGED <<tries, ready, server, kills, exitStatus>>
    /\ UNCHANGED <<exceptAudit, spawned, script, trap, args, MODE, NO_DEV, SHOW_LOGS, TIMEOUT, index,
                   files, large, cmds, ran, DEV_PID, reqs, sigCount>>

\* dev-audit.sh: `for i in $(seq 1 30)`, one probe per iteration.
da_poll ==
    /\ script = "devaudit"
    /\ pc = "poll"
    /\ \E answer \in ProbeAnswers :
        IF answer
        THEN /\ out' = ok(out, "Server responsive")
             /\ ready' = TRUE
             /\ tries' = 0
             /\ pc' = "smoke"
             /\ UNCHANGED <<server, kills, exitStatus>>
        ELSE IF tries + 1 < POLL_ATTEMPTS
        THEN /\ tries' = tries + 1
             /\ UNCHANGED <<out, ready, pc, server, kills, exitStatus>>
        ELSE /\ Terminate(1, fail(Append(out, <<"LOG", "server log", "">>),
                                  "Server did not become ready", "").o)
             /\ UNCHANGED <<tries, ready>>
    /\ UNCHANGED <<exceptAudit, spawned, script, trap, args, MODE, NO_DEV, SHOW_LOGS, TIMEOUT, index,
                   files, large, cmds, ran, DEV_PID, reqs, sigCount>>

\* preflight.sh: `while ! curl ...; do sleep 0.5; t=$((t+1));
\* [ $t -lt $TIMEOUT ] || log_fail ...; done`.  A TIMEOUT that is not a
\* number makes `[` fail, which takes the log_fail branch as well.
pf_poll ==
    /\ script = "preflight"
    /\ pc = "poll"
    /\ \E answer \in ProbeAnswers :
        IF answer
        THEN /\ out' = ok(out, "Server responsive")
             /\ ready' = TRUE
             /\ tries' = 0
             /\ pc' = "smoke"
             /\ UNCHANGED <<server, kills, exitStatus>>
        ELSE IF IsNum(TIMEOUT) /\ tries + 1 < Num(TIMEOUT)
        THEN /\ tries' = tries + 1
             /\ UNCHANGED <<out, ready, pc, server, kills, exitStatus>>
        ELSE /\ Terminate(1, fail(out, "Server not ready", "").o)
             /\ UNCHANGED <<tries, ready>>
    /\ UNCHANGED <<exceptAudit, spawned, script, trap, args, MODE, NO_DEV, SHOW_LOGS, TIMEOUT, index,
                   files, large, cmds, ran, DEV_PID, reqs, sigCount>>

\* --------------------------------------------------------- smoke tests
DA_PATHS == <<"/", "/css/base.css", "/css/layout.css", "/css/components.css",
              "/css/effects.css", "/js/main.js", "/js/a11y.js",
              "/js/parallax.js", "/downloads/jeffrey-plewak-resume.pdf",
              "/downloads/jeffrey-plewak.vcf", "/assets/favicon.png",
              "/assets/images/og-image.png">>

PF_PATHS == <<"/", "/css/base.css", "/js/main.js", "/assets/favicon.png">>

\* Status codes curl can report for a path.
SmokeCodes == {"200", "404"}

\* smoke_test_endpoints: skipped as a whole under --no-dev, else one
\* request per step, in list order.
smoke_test_endpoints ==
    /\ script = "devaudit"
    /\ pc = "smoke"
    /\ IF NO_DEV = 1
       THEN /\ pc' = "dev_complete"
            /\ UNCHANGED <<out, reqs, server, kills, exitStatus>>
       ELSE LET p == DA_PATHS[Len(reqs) + 1]
                o0 == IF reqs = <<>> THEN info(out, "Smoke testing key endpoints") ELSE out
            IN  \E code \in SmokeCodes :
                    LET o1 == Append(o0, <<"SMOKE", code, p>>) IN
                    /\ reqs' = Append(reqs, p)
                    /\ IF code # "200"
                       THEN Terminate(1, fail(o1, code, p).o)
                       ELSE IF Len(reqs) + 1 < Len(DA_PATHS)
                       THEN /\ out' = o1
                            /\ UNCHANGED <<pc, server, kills, exitStatus>>
                       ELSE /\ out' = ok(o1, "All smoke tests passed")
                            /\ pc' = "dev_complete"
                            /\ UNCHANGED <<server, kills, exitStatus>>
    /\ UNCHANGED <<exceptAudit, spawned, script, trap, args, MODE, NO_DEV, SHOW_LOGS, TIMEOUT, index,
                   files, large, cmds, ran, DEV_PID, tries, ready, sigCount>>

\* The last command of smoke_tests is `[ $SHOW_LOGS -eq 1 ] && (...)`; its
\* status is the function's status, and the call is a simple command
\* under errexit.
smoke_tests_status == IF SHOW_LOGS = 1 THEN 0 ELSE 1

\* A smoke test that reports a non-200 status and goes on to the next path.
smoke_tests_keeps_going ==
    /\ script = "preflight"
    /\ pc = "smoke"
    /\ LET p == PF_PATHS[Len(reqs) + 1] IN
       \E code \in SmokeCodes :
            LET o0 == Append(out, <<"SMOKE", code, p>>)
                o1 == IF code # "200" THEN fail_returns(o0, code, p).o ELSE o0
            IN
            /\ reqs' = Append(reqs, p)
            /\ IF Len(reqs) + 1 < Len(PF_PATHS)
               THEN /\ out' = o1
                    /\ UNCHANGED <<pc, server, kills, exitStatus>>
               ELSE LET o2 == ok(o1, "Smoke tests passed") IN
                    IF smoke_tests_status = 0
                    THEN /\ out' = Append(o2, <<"LOG", "server log", "">>)
                         /\ pc' = "dev_complete"
                         /\ UNCHANGED <<server, kills, exitStatus>>
                    ELSE Terminate(smoke_tests_status, o2)
    /\ UNCHANGED <<exceptAudit, spawned, script, trap, args, MODE, NO_DEV, SHOW_LOGS, TIMEOUT, index,
                   files, large, cmds, ran, DEV_PID, tries, ready, sigCount>>

smoke_tests ==
    /\ script = "preflight"
    /\ pc = "smoke"
    /\ LET p == PF_PATHS[Len(reqs) + 1] IN
       \E code \in SmokeCodes :
            LET o1 == Append(out, <<"SMOKE", code, p>>) IN
            /\ reqs' = Append(reqs, p)
            /\ IF code # "200"
               THEN Terminate(1, fail(o1, code, p).o)
               ELSE IF Len(reqs) + 1 < Len(PF_PATHS)
               THEN /\ out' = o1
                    /\ UNCHANGED <<pc, server, kills, exitStatus>>
               ELSE LET o2 == ok(o1, "Smoke tests passed") IN
                    IF smoke_tests_status = 0
                    THEN /\ out' = Append(o2, <<"LOG", "server log", "">>)
                         /\ pc' = "dev_complete"
                         /\ UNCHANGED <<server, kills, exitStatus>>
                    ELSE Terminate(smoke_tests_status, o2)
    /\ UNCHANGED <<exceptAudit, spawned, script, trap, args, MODE, NO_DEV, SHOW_LOGS, TIMEOUT, index,
                   files, large, cmds, ran, DEV_PID, tries, ready, sigCount>>

\* ok "Dev mode complete ... (pid=$DEV_PID)": expanding an unset DEV_PID
\* under `set -u` ends the shell with status 1.
dev_complete ==
    /\ pc = "dev_complete"
    /\ IF DEV_PID = Unset
       THEN Terminate(1, out)
       ELSE /\ out' = IF script = "devaudit" THEN ok(out, "Dev mode complete") ELSE info(out, "Dev mode complete")
            /\ pc' = "idle"
            /\ UNCHANGED <<server, kills, exitStatus>>
    /\ UNCHANGED <<exceptAudit, spawned, script, trap, args, MODE, NO_DEV, SHOW_LOGS, TIMEOUT, index,
                   files, large, cmds, ran, DEV_PID, tries, ready, reqs, sigCount>>

\* -------------------------------------------------------------- signals
Signals == {SIGINT, SIGTERM}

\* INT or TERM arrives, at the tool alone or (group) at the tool and its
\* foreground child.  Group delivery is followed while the tool sits in
\* `while true; do sleep 1; done`.
\*   trap cleanup: the handler runs and the script resumes where it was;
\*     when `sleep` was killed too, its status 128+sig ends the shell under
\*     errexit and the EXIT trap runs cleanup once more.
\*   no trap: the shell dies of the signal without running anything,
\*     except that an INT sent to the shell alone is dropped when the
\*     foreground child ends normally.
Signal ==
    /\ pc # "exited"
    /\ sigCount < MaxSignals
    /\ sigCount' = sigCount + 1
    /\ \E sig \in Signals, group \in BOOLEAN :
        /\ group => pc = "idle" \/ trap = "none"
        /\ IF trap = "cleanup"
           THEN LET o1 == cleanup_out(DEV_PID, out)
                    s1 == cleanup_srv(DEV_PID, server)
                    k1 == kills + cleanup_kills(DEV_PID, server)
                IN  IF group
                    THEN TerminateWith(128 + sig, o1, s1, k1)
                    ELSE /\ out' = o1
                         /\ server' = s1
                         /\ kills' = k1
                         /\ UNCHANGED <<pc, exitStatus>>
           ELSE IF sig = SIGINT /\ ~group
                THEN UNCHANGED <<pc, exitStatus, out, server, kills>>
                ELSE Terminate(128 + sig, out)
    /\ UNCHANGED <<exceptAudit, spawned, script, trap, args, MODE, NO_DEV, SHOW_LOGS, TIMEOUT, index,
                   files, large, cmds, ran, DEV_PID, tries, ready, reqs>>

Next ==
    \/ da_parse_arg
    \/ pf_parse_arg
    \/ baseline_tools
    \/ check_single_document
    \/ check_required_files
    \/ check_internal_refs
    \/ check_seo_basics
    \/ check_accessibility_basics
    \/ check_perf_risks
    \/ check_calendly_placeholder
    \/ check_vercel_config
    \/ pf_structural
    \/ pf_required
    \/ pf_refs
    \/ pf_seo
    \/ pf_a11y
    \/ pf_calendly
    \/ start_dev_server
    \/ start_server
    \/ da_poll
    \/ pf_poll
    \/ smoke_test_endpoints
    \/ smoke_tests
    \/ dev_complete
    \/ Signal

Spec == Init /\ [][Next]_vars

\* ----------------------------------------- two audit runs in succession
\* Argument lists of an audit-mode run.
AuditArgs == {<<>>, <<"--audit">>}

InitTwice ==
    /\ \E sc \in Scripts, a \in AuditArgs :
        /\ \/ \E env \in Envs : InitRun(sc, a, {}, env)
           \/ \E D \in DefectSets : InitRun(sc, a, D, AllCmds)
        /\ argv = a
    /\ run = 1
    /\ firstOut = <<>>
    /\ firstStatus = 0
    /\ ToolsOff

\* The script has exited and is started again with the same arguments on
\* the tree the first run left behind.
Rerun ==
    /\ pc = "exited"
    /\ run = 1
    /\ run' = 2
    /\ firstOut' = out
    /\ firstStatus' = exitStatus
    /\ args' = argv
    /\ pc' = AfterArgs(script, argv)
    /\ MODE' = "audit"
    /\ NO_DEV' = 0
    /\ SHOW_LOGS' = 0
    /\ TIMEOUT' = "12"
    /\ ran' = <<>>
    /\ out' = <<>>
    /\ DEV_PID' = Unset
    /\ tries' = 0
    /\ ready' = FALSE
    /\ reqs' = <<>>
    /\ exitStatus' = 0
    /\ UNCHANGED <<argv, script, trap, index, files, large, cmds, server,
                   spawned, kills, sigCount, toolVars>>

NextTwice ==
    \/ da_parse_arg
    \/ pf_parse_arg
    \/ baseline_tools
    \/ check_single_document
    \/ check_required_files
    \/ check_internal_refs
    \/ check_seo_basics
    \/ check_accessibility_basics
    \/ check_perf_risks
    \/ check_calendly_placeholder
    \/ check_vercel_config
    \/ pf_structural
    \/ pf_required
    \/ pf_refs
    \/ pf_seo
    \/ pf_a11y
    \/ pf_calendly
    \/ Rerun

SpecTwice == InitTwice /\ [][NextTwice]_vars

\* ======================================================================
\* Properties
\* ======================================================================
Printed(kind, msg) == \E n \in DOMAIN out : out[n][1] = kind /\ out[n][2] = msg

PrintedAbout(kind, subj) == \E n \in DOMAIN out : out[n][1] = kind /\ out[n][3] = subj

PrintedUsage == \E n \in DOMAIN out : out[n][1] = "USAGE"

\* The argument loop ran to its end.
Parsed == args = <<>>

\* C1: in dev-audit.sh, once the tool has exited, a server process that
\* start_dev_server spawned is no longer running, whichever way the tool
\* exited.
C1_ServerStoppedAtExit ==
    (script = "devaudit" /\ pc = "exited") => server # "running"

\* C2: in dev-audit.sh, an INT or TERM delivered while the tool sits in the
\* idle loop runs cleanup and ends the tool; the tool does not stay in the
\* loop.
C2_SignalEndsIdle ==
    [][(script = "devaudit" /\ pc = "idle" /\ sigCount' = sigCount + 1)
        => pc' = "exited"]_vars

\* C3: in both scripts a dev-mode run with default options whose smoke
\* tests all passed never exits on its own (without a signal).
SmokePassed ==
    Printed("OK", "All smoke tests passed") \/ Printed("OK", "Smoke tests passed")

C3_IdleAfterSmoke ==
    (MODE = "dev" /\ NO_DEV = 0 /\ SHOW_LOGS = 0 /\ TIMEOUT = "12"
     /\ SmokePassed /\ sigCount = 0)
        => pc # "exited"

\* C4: dev-audit.sh with --dev and --no-dev and all static checks passing
\* spawns no server, probes and requests nothing, does not idle, and exits
\* with status 0.
DA_ORDER == <<"check_single_document", "check_required_files",
              "check_internal_refs", "check_seo_basics",
              "check_accessibility_basics", "check_perf_risks",
              "check_calendly_placeholder", "check_vercel_config">>

C4_NoDevChecksOnly ==
    (script = "devaudit" /\ MODE = "dev" /\ NO_DEV = 1 /\ ran = DA_ORDER
     /\ sigCount = 0)
        => /\ server = "none"
           /\ ~ready
           /\ reqs = <<>>
           /\ pc # "idle"
           /\ pc = "exited" => exitStatus = 0

\* C5: an audit-mode run over a site in which only advisory conditions are
\* violated runs every check, warns about each violated condition and
\* exits 0.
PF_ORDER == <<"pf_structural", "pf_required", "pf_refs", "pf_seo", "pf_a11y",
              "pf_calendly">>

CheckOrder(sc) == IF sc = "devaudit" THEN DA_ORDER ELSE PF_ORDER

Manifest(sc) == IF sc = "devaudit" THEN Range(REQ_FILES) ELSE Range(REQUIRED)

RefsResolve == \A t \in RefTokens : GrepQ(index, t) => RefFile(t) \in files

\* No required (fatal) condition of the spec is violated by the site.
RequiredConditionsHold ==
    /\ GrepO(index, "doctype") = 1
    /\ GrepO(index, "htmlend") = 1
    /\ ~GrepQ(index, "artifact")
    /\ Manifest(script) \subseteq files
    /\ RefsResolve
    /\ GrepQ(index, "title_full")
    /\ GrepQ(index, "desc")

\* Some image has no alt attribute: on some line there are more <img than
\* alt= occurrences.
SomeImgLacksAlt == \E n \in DOMAIN index : Cnt(index[n], "img") > Cnt(index[n], "alt")

WarnedH1 == Printed("WARN", "Expected 1 <h1>") \/ Printed("WARN", "Expected 1 H1")

WarnedAlt ==
    Printed("WARN", "Found <img> without alt attribute")
    \/ Printed("WARN", "Missing alt on images")

WarnedLang ==
    Printed("WARN", "Missing lang=en on <html>") \/ Printed("WARN", "Missing lang attribute")

C5_WarningsDoNotStop ==
    (pc = "exited" /\ Parsed /\ MODE = "audit" /\ sigCount = 0
     /\ Range(Baseline) \subseteq cmds /\ RequiredConditionsHold)
        => /\ exitStatus = 0
           /\ ran = CheckOrder(script)
           /\ GrepO(index, "h1") # 1 => WarnedH1
           /\ SomeImgLacksAlt => WarnedAlt
           /\ ~(GrepQ(index, "html_lang_en") \/ GrepQ(index, "html_lang_other")) => WarnedLang

\* C6: in both scripts an unrecognized flag makes the tool print a usage
\* message and exit non-zero, with no check run and no server spawned.
Recognized(sc) ==
    IF sc = "devaudit"
    THEN {"--audit", "--dev", "--port", "--yes", "--no-dev", "-h", "--help"}
    ELSE {"--audit", "--dev", "--port", "--logs", "--timeout", "--help"}

Flags == ArgTokens \ {"2"}

\* The tool exited in the argument loop, at a flag it does not know.
ExitedAtUnknownArg ==
    /\ pc = "exited"
    /\ ran = <<>>
    /\ args # <<>>
    /\ Head(args) \in Flags \ Recognized(script)

C6_UnknownFlagUsage ==
    (ExitedAtUnknownArg /\ sigCount = 0)
        => /\ PrintedUsage
           /\ exitStatus # 0
           /\ ran = <<>>
           /\ server = "none"

\* C7: in both scripts -h or --help as the only argument prints the usage
\* text and exits 0, with no check run and no server spawned.
C7_HelpExitsZero ==
    (pc = "exited" /\ args \in {<<"-h">>, <<"--help">>} /\ MODE = "audit"
     /\ NO_DEV = 0 /\ SHOW_LOGS = 0 /\ TIMEOUT = "12" /\ sigCount = 0)
        => /\ PrintedUsage
           /\ exitStatus = 0
           /\ ran = <<>>
           /\ server = "none"

\* C8: the checks run in one fixed order, and once a required check has
\* failed the run is over with a non-zero status: the failed check is the
\* last one executed, no server was spawned and no smoke request issued.
\* (dev-audit.sh runs the eight checks of the claim; preflight.sh runs six
\* of them, in the same relative order.)
CheckFailOwner ==
    [m \in {"Expected exactly 1 <!doctype html>", "Expected exactly 1 </html>",
            "Found citation artifacts"} |-> "check_single_document"]
    @@ [m \in {"Missing required files (see list above)"} |-> "check_required_files"]
    @@ [m \in {"Broken internal asset references (see above)"} |-> "check_internal_refs"]
    @@ [m \in {"Missing <title>", "Missing meta description"} |-> "check_seo_basics"]

PfCheckFailOwner ==
    [m \in {"Expected single doctype", "Expected one </html>"} |-> "pf_structural"]
    @@ [m \in {"Missing required"} |-> "pf_required"]
    @@ [m \in {"Broken ref"} |-> "pf_refs"]
    @@ [m \in {"Missing <title>", "Missing meta description"} |-> "pf_seo"]

FailOwner(sc) == IF sc = "devaudit" THEN CheckFailOwner ELSE PfCheckFailOwner

\* A required check has printed its failure.
CheckFailedAt(n) ==
    /\ n \in DOMAIN out
    /\ out[n][1] = "FAIL"
    /\ out[n][2] \in DOMAIN FailOwner(script)
    /\ ran # <<>>

C8_FixedOrderFailFast ==
    /\ ran = SubSeq(CheckOrder(script), 1, Len(ran))
    /\ \A n \in DOMAIN out :
          CheckFailedAt(n)
            => /\ pc = "exited"
               /\ exitStatus # 0
               /\ Last(ran) = FailOwner(script)[out[n][2]]
               /\ n = Len(out)
               /\ server = "none"
               /\ ~ready
               /\ reqs = <<>>

\* A dev-mode dev-audit.sh run that failed at its fourth check.
C8_Witness ==
    /\ script = "devaudit"
    /\ MODE = "dev"
    /\ pc = "exited"
    /\ ran = SubSeq(DA_ORDER, 1, 4)
    /\ CheckFailedAt(Len(out))

\* C9: the structural check passes exactly when index.html has one
\* occurrence of the doctype, one closing </html> and no citation artifact,
\* however the occurrences are spread over the lines.
StructuralPassed ==
    Printed("OK", "HTML structure clean") \/ Printed("OK", "HTML structure valid")

C9_StructuralExactlyOne ==
    (ran # <<>>)
        => (StructuralPassed
              <=> /\ GrepO(index, "doctype") = 1
                  /\ GrepO(index, "htmlend") = 1
                  /\ ~GrepQ(index, "artifact"))

\* C10: in both scripts, when N >= 1 manifest entries are missing, the
\* presence check has reported every one of them when it fails the run.
RequiredFilesFailed ==
    Printed("FAIL", "Missing required files (see list above)")
    \/ Printed("FAIL", "Missing required")

Reported(f) == PrintedAbout("MISSING", f) \/ PrintedAbout("FAIL", f)

C10_AllMissingReported ==
    RequiredFilesFailed
        => /\ pc = "exited"
           /\ exitStatus # 0
           /\ \A f \in Manifest(script) \ files : Reported(f)

\* C11: in both scripts the internal reference check fails the run exactly
\* when index.html has an absolute href/src path that is not a regular file
\* under the site root, and when it fails every such path has been
\* reported before the non-zero exit.
RefsCheckRan == \E n \in DOMAIN ran : ran[n] \in {"check_internal_refs", "pf_refs"}

RefsCheckFailed ==
    Printed("FAIL", "Broken internal asset references (see above)")
    \/ Printed("FAIL", "Broken ref")

Unresolved == {t \in RefTokens : GrepQ(index, t) /\ RefFile(t) \notin files}

ReportedRef(t) == PrintedAbout("BROKEN", RefPath(t)) \/ PrintedAbout("FAIL", RefPath(t))

C11_AllBrokenRefsReported ==
    RefsCheckRan
        => /\ RefsCheckFailed <=> Unresolved # {}
           /\ RefsCheckFailed
                => /\ pc = "exited"
                   /\ exitStatus # 0
                   /\ \A t \in Unresolved : ReportedRef(t)

\* C12: in both scripts the SEO check fails the run when index.html has no
\* title tag or no description meta tag; for a document that has both and
\* lacks only the canonical link it warns about the canonical link, passes,
\* and the run goes on to the accessibility check.
SeoChecks == {"check_seo_basics", "pf_seo"}

SeoCheckRan == \E n \in DOMAIN ran : ran[n] \in SeoChecks

HasTitle == GrepQ(index, "title_full") \/ GrepQ(index, "title_open")

HasDescription == GrepQ(index, "desc")

LacksOnlyCanonical ==
    /\ HasTitle
    /\ HasDescription
    /\ ~GrepQ(index, "canonical")
    /\ \A t \in {"robots", "og_title", "og_description", "og_image",
                 "twitter_card", "jsonld"} : GrepQ(index, t)

SeoFailed == Printed("FAIL", "Missing <title>") \/ Printed("FAIL", "Missing meta description")

SeoPassed == Printed("OK", "SEO baseline present") \/ Printed("OK", "Title + description present")

C12_SeoTitleDescriptionCanonical ==
    SeoCheckRan
        => /\ (~HasTitle \/ ~HasDescription)
                => SeoFailed /\ pc = "exited" /\ exitStatus # 0
           /\ LacksOnlyCanonical
                => /\ Printed("WARN", "Missing canonical link")
                   /\ SeoPassed
                   /\ (pc = "exited" /\ sigCount = 0) => Last(ran) \notin SeoChecks

\* C13: in every run of either script, a smoke-test request is issued only
\* after a readiness probe of the server root has succeeded in the same
\* run; after a readiness timeout no smoke test is attempted.
ReadinessTimedOut ==
    Printed("FAIL", "Server did not become ready") \/ Printed("FAIL", "Server not ready")

C13_SmokeOnlyAfterReady ==
    /\ reqs # <<>> => ready
    /\ ReadinessTimedOut => reqs = <<>> /\ pc = "exited"

\* Smoke requests have been issued after a successful probe.
C13_Witness == reqs # <<>> /\ ready /\ Printed("OK", "Server responsive")

\* C14: in both scripts, the first smoke-test path whose status is not 200
\* ends the run with a failure line naming that path and status and a
\* non-zero exit status, and no later path of the list is requested.
SmokeLines == SelectSeq(out, LAMBDA l : l[1] = "SMOKE")

C14_FirstNon200Fatal ==
    /\ Len(SmokeLines) = Len(reqs)
    /\ \A n \in DOMAIN SmokeLines :
        /\ SmokeLines[n][3] = reqs[n]
        /\ SmokeLines[n][2] # "200"
            => /\ n = Len(reqs)
               /\ pc = "exited"
               /\ exitStatus # 0
               /\ \E m \in DOMAIN out :
                    out[m] = <<"FAIL", SmokeLines[n][2], SmokeLines[n][3]>>

\* A path after the first answered with another status while paths remain.
C14_Witness ==
    /\ Len(reqs) > 1
    /\ Len(reqs) < Len(IF script = "devaudit" THEN DA_PATHS ELSE PF_PATHS)
    /\ SmokeLines[Len(reqs)][2] # "200"

\* C15: in both scripts the readiness poll makes a bounded number of
\* probes, the bound following the readiness timeout configured with
\* --timeout (12 by default); it stops at the first successful probe, and
\* when no probe succeeds it prints the tail of the server log and the run
\* exits non-zero.
TimeoutOptionRejected ==
    \E n \in DOMAIN out : out[n] = <<"FAIL", "Unknown arg", "--timeout">>

C15_PollBoundedLogTail ==
    /\ ~TimeoutOptionRejected
    /\ (pc = "poll" /\ IsNum(TIMEOUT)) => ~ready /\ tries < Num(TIMEOUT) * 5
    /\ ReadinessTimedOut
        => /\ Printed("LOG", "server log")
           /\ pc = "exited"
           /\ exitStatus # 0

\* C16: in any run of either script at most one server process is ever
\* spawned: vercel when that command is available, otherwise python3,
\* never both and never a second one after the first.
C16_AtMostOneServer ==
    /\ Len(spawned) <= 1
    /\ server # "none" <=> spawned # <<>>
    /\ spawned # <<>>
        => spawned[1] = (IF "vercel" \in cmds THEN "vercel" ELSE "python3")
           /\ spawned[1] \in cmds

\* The python3 fallback has been launched and the run has gone on past it.
C16_Witness == spawned = <<"python3">> /\ reqs # <<>>

\* C17 (as claimed): a dev-mode run in which neither vercel nor python3 is
\* available spawns no server, makes no readiness probe and no smoke
\* request, and, once its checks have passed, exits non-zero with the
\* message that no server tool is available.
NoServerTool == "vercel" \notin cmds /\ "python3" \notin cmds

NoServerToolMessage ==
    Printed("FAIL", "Neither vercel nor python3 available to run a local server.")
    \/ Printed("FAIL", "No server tool (vercel or python3) found")

NothingStarted ==
    /\ spawned = <<>>
    /\ server = "none"
    /\ pc # "poll"
    /\ tries = 0
    /\ ~ready
    /\ ~ReadinessTimedOut
    /\ reqs = <<>>

ChecksPassedAndExited ==
    pc = "exited" /\ ran = CheckOrder(script) /\ sigCount = 0

C17_Original ==
    (MODE = "dev" /\ NoServerTool)
        => /\ NothingStarted
           /\ ChecksPassedAndExited => exitStatus # 0 /\ NoServerToolMessage

\* C17 (amended): the same for a dev-mode run that was not given --no-dev;
\* under --no-dev dev-audit.sh skips the server stage without that message.
C17_NoServerToolFatal ==
    (MODE = "dev" /\ NoServerTool)
        => /\ NothingStarted
           /\ (ChecksPassedAndExited /\ NO_DEV = 0)
                => exitStatus # 0 /\ NoServerToolMessage

C17_Witness ==
    MODE = "dev" /\ NO_DEV = 0 /\ NoServerTool /\ pc = "exited" /\ NoServerToolMessage

\* C18: in dev-audit.sh, over any run, signalled or not, cleanup signals
\* the server process it spawned exactly once (never twice, and once by
\* the time the tool has exited); a cleanup that finds the process gone
\* sends nothing.
C18_CleanupKillsOnce ==
    script = "devaudit"
        => /\ kills <= 1
           /\ (pc = "exited" /\ spawned # <<>>) => kills = 1

\* C19: in preflight.sh a cleanup handler is registered before any server
\* is spawned, and whenever the tool has exited after start_server spawned
\* a server, that server is no longer running.
C19_PreflightCleanupArmed ==
    (script = "preflight" /\ spawned # <<>>)
        => /\ trap = "cleanup"
           /\ pc = "exited" => server # "running"

\* C20: in both scripts, when curl is not installed no static check runs
\* and no server is spawned, and the run that got through its arguments
\* exits non-zero having reported the missing command.
C20_MissingCommandFatal ==
    "curl" \notin cmds
        => /\ ran = <<>>
           /\ spawned = <<>>
           /\ (pc = "exited" /\ Parsed /\ sigCount = 0)
                => exitStatus # 0 /\ PrintedAbout("FAIL", "curl")

\* C21: an audit-mode run of either script leaves index.html and the files
\* of the site tree as they were, and a second audit-mode run on the same
\* tree prints the same sequence of outcomes and exits with the same
\* status as the first.
TreeUntouched == files' = files /\ index' = index /\ large' = large

SecondRunSame == (run = 2 /\ pc = "exited") => (out = firstOut /\ exitStatus = firstStatus)

C21_AuditIdempotent == [][TreeUntouched]_vars /\ []SecondRunSame

\* A second run has ended after warnings and a fatal failure.
C21_Witness ==
    /\ run = 2
    /\ pc = "exited"
    /\ exitStatus # 0
    /\ \E n \in DOMAIN out : out[n][1] = "WARN"

\* C22: for a valid site tree (one doctype, one closing html tag, every
\* manifest file present, every absolute reference resolving, title and
\* description present, one H1, every image with alt, no oversized asset,
\* no placeholder booking link, platform config present) and the required
\* commands installed, an audit-mode run of either script exits 0 having
\* executed every check, reported no failure and spawned no server.
ValidTree ==
    /\ GrepO(index, "doctype") = 1
    /\ GrepO(index, "htmlend") = 1
    /\ ~GrepQ(index, "artifact")
    /\ Manifest(script) \subseteq files
    /\ RefsResolve
    /\ HasTitle
    /\ HasDescription
    /\ GrepO(index, "h1") = 1
    /\ ~SomeImgLacksAlt
    /\ large = {}
    /\ ~GrepQ(index, "calendly_placeholder")
    /\ "vercel.json" \in files

AuditRunOver == MODE = "audit" /\ pc = "exited" /\ Parsed /\ sigCount = 0 /\ ~PrintedUsage

C22_ValidTreeAuditPasses ==
    (ValidTree /\ Range(Baseline) \subseteq cmds /\ AuditRunOver)
        => /\ exitStatus = 0
           /\ ran = CheckOrder(script)
           /\ ~\E n \in DOMAIN out : out[n][1] = "FAIL"
           /\ spawned = <<>>
           /\ server = "none"

\* ---------------------------------------------------------------------
\* scripts/fetch-logos.sh
\* ---------------------------------------------------------------------

\* ---- bounds of the fetch-logos runs
MaxLogos == 2      \* entries of LOGOS a run goes through
MaxFlags == 2      \* longest list of plain options
MaxRetryArg == 2   \* largest number given to --max-retries

\* local file names of the LOGOS array (lines 158-167)
LOGOS ==
    <<"lockheed-martin.svg", "jp-morgan-chase.svg", "nintendo.svg",
      "rtx-raytheon.svg", "fidelity-investments.svg", "aws.svg",
      "expedia.svg", "ibm.svg">>

Digits == <<"1", "2", "3", "4", "5", "6", "7", "8", "9">>

\* bash arithmetic on $MAX_RETRIES: a decimal word is its value; a word
\* that is not a number is read as a variable name, unset under set -u
IsNumber(tok) == tok = "0" \/ tok \in Range(Digits)

Retries(tok) == IF tok = "0" THEN 0 ELSE CHOOSE n \in DOMAIN Digits : Digits[n] = tok

\* argument lists: plain options followed by an optional --max-retries
FetchArgLists ==
    LET values == {"0", "--force"} \cup {Digits[n] : n \in 1..MaxRetryArg}
        tail == {<<>>, <<"--max-retries">>}
                  \cup {<<"--max-retries", v>> : v \in values}
    IN {f \o t : f \in SeqsUpTo({"--dry-run", "--force", "--bogus"}, MaxFlags),
                 t \in tail}

\* state at the first line of the script: the tree either lacks
\* assets/logos or has it with some of the logo files already in it
InitFetchLogos ==
    \E a \in FetchArgLists, c \in {{"curl", "wget"}, {"wget"}, {}},
       d \in BOOLEAN, old \in SUBSET (1..MaxLogos) :
        /\ (~d => old = {})
        /\ fetchLogos =
             [pc |-> "mkdir", argv |-> a, args |-> a, cmds |-> c,
              DRY_RUN |-> 0, FORCE |-> 0, MAX_RETRIES |-> "3",
              dir0 |-> d, dir |-> d,
              dest0 |-> [n \in 1..MaxLogos |-> IF n \in old THEN "old" ELSE "absent"],
              dest |-> [n \in 1..MaxLogos |-> IF n \in old THEN "old" ELSE "absent"],
              tmp |-> {}, i |-> 1, attempt |-> 0, delay |-> 0,
              hist |-> [n \in 1..MaxLogos |-> <<>>],
              ret |-> [n \in 1..MaxLogos |-> "none"],
              heads |-> 0, succeeded |-> 0, failed |-> 0, status |-> 0]

\* line 33: mkdir -p "$LOGO_DIR", before the arguments are looked at
fl_mkdir ==
    /\ fetchLogos.pc = "mkdir"
    /\ fetchLogos' = [fetchLogos EXCEPT !.pc = "args", !.dir = TRUE]
    /\ UNCHANGED <<auditVars, rerunVars, moveConsulting, hubspot, themeToggle, contact>>

\* lines 45-69: one turn of the argument loop
fl_parse_arg ==
    /\ fetchLogos.pc = "args"
    /\ LET r == fetchLogos
           a == r.args
       IN fetchLogos' =
            IF a = <<>> THEN [r EXCEPT !.pc = "entry"]
            ELSE IF a[1] = "--dry-run" THEN [r EXCEPT !.DRY_RUN = 1, !.args = Tail(a)]
            ELSE IF a[1] = "--force" THEN [r EXCEPT !.FORCE = 1, !.args = Tail(a)]
            ELSE IF a[1] = "--max-retries" /\ Len(a) >= 2
                 THEN [r EXCEPT !.MAX_RETRIES = a[2], !.args = Tail(Tail(a))]
            ELSE [r EXCEPT !.pc = "exited", !.status = 1]
    /\ UNCHANGED <<auditVars, rerunVars, moveConsulting, hubspot, themeToggle, contact>>

\* end of one turn of the main loop: next entry of LOGOS or the summary
Advance(r) ==
    IF r.i = MaxLogos THEN [r EXCEPT !.pc = "summary"]
    ELSE [r EXCEPT !.pc = "entry", !.i = @ + 1]

\* lines 178-211 up to the first download attempt: the HEAD request of
\* check_content_type, the existing-file test, and the head of
\* download_with_retry (lines 111-126)
fetch_entry ==
    /\ fetchLogos.pc = "entry"
    /\ LET r == [fetchLogos EXCEPT
                   !.heads = IF "curl" \in fetchLogos.cmds THEN @ + 1 ELSE @]
           n == r.i
           over(how, done) ==
               Advance([r EXCEPT !.ret[n] = how, !.succeeded = @ + done,
                                 !.failed = @ + (1 - done)])
       IN fetchLogos' =
            IF r.dest[n] # "absent" /\ r.FORCE = 0 THEN over("exists", 1)
            ELSE IF r.DRY_RUN = 1 THEN over("dry-run", 1)
            ELSE IF r.cmds \cap {"curl", "wget"} = {} THEN over("no-tool", 0)
            ELSE IF ~IsNumber(r.MAX_RETRIES)
                 THEN [r EXCEPT !.pc = "exited", !.status = 1]
            ELSE IF 1 <= Retries(r.MAX_RETRIES)
                 THEN [r EXCEPT !.pc = "attempt", !.attempt = 1, !.delay = 2]
            ELSE over("gave-up", 0)
    /\ UNCHANGED <<auditVars, rerunVars, moveConsulting, hubspot, themeToggle, contact>>

\* lines 143-147 without the test of line 143: sleeps after every failure
download_attempt_always_sleeps(done, partial) ==
    /\ fetchLogos.pc = "attempt"
    /\ LET r == fetchLogos
           n == r.i
           tried == [r EXCEPT !.hist[n] =
                        Append(@, <<IF done THEN "ok" ELSE "failed", r.attempt>>)]
           f == [tried EXCEPT !.tmp = IF partial THEN @ \cup {n} ELSE @,
                              !.attempt = @ + 1]
       IN fetchLogos' =
            IF done
            THEN Advance([tried EXCEPT !.dest[n] = "new", !.tmp = @ \ {n},
                                       !.ret[n] = "ok", !.succeeded = @ + 1])
            ELSE [f EXCEPT !.pc = "sleep"]
    /\ UNCHANGED <<auditVars, rerunVars, moveConsulting, hubspot, themeToggle, contact>>

\* lines 126-151: one download attempt into "$dest.tmp"; on success the
\* file is moved onto "$dest", on failure (which may leave a partial
\* "$dest.tmp") the attempt counter goes up and the loop sleeps only if
\* another attempt follows
download_attempt(done, partial) ==
    /\ fetchLogos.pc = "attempt"
    /\ LET r == fetchLogos
           n == r.i
           tried == [r EXCEPT !.hist[n] =
                        Append(@, <<IF done THEN "ok" ELSE "failed", r.attempt>>)]
           f == [tried EXCEPT !.tmp = IF partial THEN @ \cup {n} ELSE @,
                              !.attempt = @ + 1]
       IN fetchLogos' =
            IF done
            THEN Advance([tried EXCEPT !.dest[n] = "new", !.tmp = @ \ {n},
                                       !.ret[n] = "ok", !.succeeded = @ + 1])
            ELSE IF f.attempt <= Retries(r.MAX_RETRIES) THEN [f EXCEPT !.pc = "sleep"]
            ELSE Advance([f EXCEPT !.ret[n] = "gave-up", !.failed = @ + 1])
    /\ UNCHANGED <<auditVars, rerunVars, moveConsulting, hubspot, themeToggle, contact>>

\* lines 145-146: sleep "$delay", then the delay doubles; the loop test
\* of line 126 follows
download_sleep ==
    /\ fetchLogos.pc = "sleep"
    /\ LET r == fetchLogos
           s == [r EXCEPT !.hist[r.i] = Append(@, <<"sleep", r.delay>>),
                          !.delay = @ * 2]
       IN fetchLogos' =
            IF s.attempt <= Retries(r.MAX_RETRIES) THEN [s EXCEPT !.pc = "attempt"]
            ELSE Advance([s EXCEPT !.ret[r.i] = "gave-up", !.failed = @ + 1])
    /\ UNCHANGED <<auditVars, rerunVars, moveConsulting, hubspot, themeToggle, contact>>

\* lines 216-222: the summary; the script ends with status 0
fl_summary ==
    /\ fetchLogos.pc = "summary"
    /\ fetchLogos' = [fetchLogos EXCEPT !.pc = "exited"]
    /\ UNCHANGED <<auditVars, rerunVars, moveConsulting, hubspot, themeToggle, contact>>

\* ---------------------------------------------------------------------
\* scripts/move-consulting.sh
\* ---------------------------------------------------------------------

\* ---- bound of the move-consulting runs
MaxPages == 2      \* candidate pages a site tree can hold

\* lines 43-54 (the patterns are quoted where they are used, line 117,
\* so each of them names one file)
CONSULTING_GLOBS ==
    <<"pay.html", "pricing.html", "prices.html", "services.html",
      "service.html", "store.html", "checkout.html", "stripe*.html",
      "offer*.html", "consulting.html">>

Pages == SubSeq(CONSULTING_GLOBS, 1, MaxPages)

\* a page: whether it has a <head...> line, the content of its robots
\* meta tag ("none": no such tag) and whether it refers to assets/...
NoPage == [exists |-> FALSE, head |-> FALSE, robots |-> "none", rel |-> FALSE]

PageContents ==
    [exists : {TRUE}, head : BOOLEAN,
     robots : {"none", "index,follow", "noindex,follow"}, rel : BOOLEAN]

MoveArgLists ==
    {<<>>, <<"--help">>, <<"--bogus">>, <<"--check">>, <<"--apply">>,
     <<"--check", "--keep-homepage-links">>,
     <<"--apply", "--keep-homepage-links">>}

\* state at the call of main: a site tree with some of the candidate
\* pages at its root, with or without index.html (which then links to
\* the pages), with or without consulting/ and its landing page, and
\* without a backup directory
InitMoveConsulting ==
    \E a \in MoveArgLists, root \in [Range(Pages) -> PageContents \cup {NoPage}],
       ix \in BOOLEAN, cd \in BOOLEAN, land \in BOOLEAN :
        /\ (land => cd)
        /\ LET t == [root |-> root,
                     index |-> [exists |-> ix,
                                links |-> [n \in Range(Pages) |->
                                    IF ix /\ root[n].exists THEN "plain" ELSE "none"]],
                     cdir |-> cd, landing |-> land,
                     cpages |-> [n \in Range(Pages) |-> NoPage],
                     bdir |-> FALSE, baks |-> {},
                     list |-> [exists |-> FALSE, lines |-> <<>>]]
           IN moveConsulting =
                [pc |-> "main", argv |-> a, MODE |-> "check",
                 HOMEPAGE_MODE |-> "strip", tree0 |-> t, tree |-> t,
                 todo |-> <<>>, status |-> 0]

\* lines 75-80 without the test of MODE
ensure_dir_always(mode, exists) == TRUE

\* lines 75-80: whether the directory exists after ensure_dir
ensure_dir(mode, exists) == IF mode = "apply" THEN TRUE ELSE exists

\* lines 111-141: the candidate pages that are files, in list order
collect_targets(root) == SelectSeq(Pages, LAMBDA n : root[n].exists)

\* lines 143-177, apply mode: a page that has a robots meta tag of any
\* content is left alone; otherwise the tag is inserted after the first
\* <head...> line, or a head block holding it is put in front
add_noindex_meta_if_missing(page) ==
    IF page.robots # "none" THEN page
    ELSE [page EXCEPT !.robots = "noindex,follow", !.head = TRUE]

\* lines 179-193, apply mode
rewrite_relative_asset_paths_for_subdir(page) == [page EXCEPT !.rel = FALSE]

\* lines 210-242: the tree after create_consulting_landing_if_missing
create_consulting_landing_if_missing(mode, t) ==
    IF ~t.landing /\ mode = "apply" THEN [t EXCEPT !.landing = TRUE] ELSE t

\* lines 244-307, apply mode: with index.html and the moved-pages list
\* there, index.html is backed up and the links to the listed pages are
\* commented out (strip) or rewritten to /consulting/ (keep)
update_homepage_links(hm, t) ==
    IF ~t.index.exists \/ ~t.list.exists THEN t
    ELSE [t EXCEPT !.baks = @ \cup {"index.html"},
                   !.index.links = [n \in Range(Pages) |->
                        IF n \in Range(t.list.lines) /\ @[n] = "plain"
                        THEN (IF hm = "keep" THEN "rewritten" ELSE "quarantined")
                        ELSE @[n]]]

\* lines 309-349: the arguments, ensure_dir, init_moved_pages_list and
\* collect_targets; without targets the landing page and exit 0
main_setup ==
    /\ moveConsulting.pc = "main"
    /\ LET r == moveConsulting
           a == r.argv
           first == IF a = <<>> THEN "" ELSE a[1]
           mode == IF first = "--apply" THEN "apply" ELSE "check"
           hm == IF Len(a) >= 2 /\ a[2] = "--keep-homepage-links"
                 THEN "keep" ELSE "strip"
           t == [r.tree EXCEPT
                   !.cdir = ensure_dir(mode, @),
                   !.bdir = IF mode = "apply" THEN ensure_dir(mode, @) ELSE @,
                   !.list = IF mode = "apply"
                            THEN [exists |-> TRUE, lines |-> <<>>] ELSE @]
           targets == collect_targets(t.root)
       IN moveConsulting' =
            IF first \in {"--help", "-h"} THEN [r EXCEPT !.pc = "exited"]
            ELSE IF first \notin {"--check", "--apply"}
                 THEN [r EXCEPT !.pc = "exited", !.status = 1]
            ELSE IF targets = <<>>
                 THEN [r EXCEPT !.pc = "exited", !.MODE = mode, !.HOMEPAGE_MODE = hm,
                                !.tree = create_consulting_landing_if_missing(mode, t)]
            ELSE [r EXCEPT !.pc = "move", !.MODE = mode, !.HOMEPAGE_MODE = hm,
                           !.tree = t, !.todo = targets]
    /\ UNCHANGED <<auditVars, rerunVars, fetchLogos, hubspot, themeToggle, contact>>

\* lines 351-367: one turn of the move loop; in apply mode the page is
\* moved, recorded, given the robots tag if it has none and its relative
\* asset paths rewritten, each change after a backup
main_move ==
    /\ moveConsulting.pc = "move"
    /\ moveConsulting.todo # <<>>
    /\ LET r == moveConsulting
           n == Head(r.todo)
           src == r.tree.root[n]
           dst == rewrite_relative_asset_paths_for_subdir(
                      add_noindex_meta_if_missing(src))
           t == [r.tree EXCEPT
                   !.root[n] = NoPage,
                   !.cpages[n] = dst,
                   !.list.lines = Append(@, n),
                   !.baks = IF dst # src THEN @ \cup {n} ELSE @]
       IN moveConsulting' =
            [r EXCEPT !.todo = Tail(@),
                      !.tree = IF r.MODE = "apply" THEN t ELSE @]
    /\ UNCHANGED <<auditVars, rerunVars, fetchLogos, hubspot, themeToggle, contact>>

\* lines 369-390: the landing page, the homepage update (apply mode
\* only) and the summary
main_finish ==
    /\ moveConsulting.pc = "move"
    /\ moveConsulting.todo = <<>>
    /\ LET r == moveConsulting
           t == create_consulting_landing_if_missing(r.MODE, r.tree)
       IN moveConsulting' =
            [r EXCEPT !.pc = "exited",
                      !.tree = IF r.MODE = "apply"
                               THEN update_homepage_links(r.HOMEPAGE_MODE, t)
                               ELSE t]
    /\ UNCHANGED <<auditVars, rerunVars, fetchLogos, hubspot, themeToggle, contact>>

\* ---------------------------------------------------------------------
\* assets/hubspot.js
\* ---------------------------------------------------------------------

\* ---- bound of the HubSpot loader runs
MaxCalls == 4      \* callbacks handed to loadHubspotScript

\* lines 31-46: the configured form names
HUBSPOT_FORMS == {"contact", "intake"}

\* lines 49-51 at page load; callbacks are numbered as they are handed
\* over, throws holds the ones that throw when invoked
InitHubspot ==
    hubspot = [pc |-> "page", hubspotScriptLoaded |-> FALSE,
               hubspotScriptLoading |-> FALSE, hubspotLoadQueue |-> <<>>,
               hbspt |-> FALSE, scripts |-> 0, inflight |-> 0,
               calls |-> 0, throws |-> {}, invoked |-> <<>>,
               onloads |-> 0, errors |-> 0, emptyLoads |-> 0,
               last |-> "page"]

\* lines 55-93 without the test of hubspotScriptLoading (lines 63-65)
loadHubspotScript_no_guard(h, t) ==
    LET cb == h.calls + 1
        c == [h EXCEPT !.calls = cb, !.last = "call",
                       !.throws = IF t THEN @ \cup {cb} ELSE @]
    IN IF h.hubspotScriptLoaded /\ h.hbspt
       THEN [c EXCEPT !.invoked = Append(@, cb)]
       ELSE [c EXCEPT !.hubspotLoadQueue = Append(@, cb),
                      !.hubspotScriptLoading = TRUE,
                      !.scripts = @ + 1, !.inflight = @ + 1]

\* lines 55-93: loadHubspotScript(callback) up to appendChild; t says
\* whether the callback throws
loadHubspotScript(h, t) ==
    LET cb == h.calls + 1
        c == [h EXCEPT !.calls = cb, !.last = "call",
                       !.throws = IF t THEN @ \cup {cb} ELSE @]
        q == [c EXCEPT !.hubspotLoadQueue = Append(@, cb)]
    IN IF h.hubspotScriptLoaded /\ h.hbspt
       THEN [c EXCEPT !.invoked = Append(@, cb)]
       ELSE IF h.hubspotScriptLoading THEN q
       ELSE [q EXCEPT !.hubspotScriptLoading = TRUE,
                      !.scripts = @ + 1, !.inflight = @ + 1]

\* lines 97-123: renderHubspotForm(name); without a configuration or a
\* target element it only warns
renderHubspotForm(name, target, t) ==
    /\ hubspot.pc = "page"
    /\ hubspot.calls < MaxCalls
    /\ hubspot' =
         IF name \notin HUBSPOT_FORMS \/ ~target
         THEN [hubspot EXCEPT !.last = "warn"]
         ELSE loadHubspotScript(hubspot, t)
    /\ UNCHANGED <<auditVars, rerunVars, fetchLogos, moveConsulting, themeToggle, contact>>

\* a queue up to and including its first throwing callback
UpToThrow(q, throws) ==
    IF \A k \in DOMAIN q : q[k] \notin throws THEN q
    ELSE SubSeq(q, 1, CHOOSE k \in DOMAIN q :
                          /\ q[k] \in throws
                          /\ \A j \in 1..(k - 1) : q[j] \notin throws)

\* lines 74-85 without the try/catch of lines 79-83
onload_no_catch(defines) ==
    /\ hubspot.pc = "page"
    /\ hubspot.inflight > 0
    /\ LET h == hubspot
           d == UpToThrow(h.hubspotLoadQueue, h.throws)
       IN hubspot' =
            [h EXCEPT !.hubspotScriptLoaded = TRUE,
                      !.hubspotScriptLoading = FALSE,
                      !.hbspt = @ \/ defines,
                      !.inflight = @ - 1, !.onloads = @ + 1,
                      !.emptyLoads = IF h.hbspt \/ defines THEN @ ELSE @ + 1,
                      !.invoked = @ \o d,
                      !.hubspotLoadQueue = SubSeq(@, Len(d) + 1, Len(@)),
                      !.last = "onload"]
    /\ UNCHANGED <<auditVars, rerunVars, fetchLogos, moveConsulting, themeToggle, contact>>

\* lines 74-85: script.onload; every queued callback is shifted off and
\* invoked, a throw being caught; defines says whether the script that
\* ran left window.hbspt.forms behind
onload(defines) ==
    /\ hubspot.pc = "page"
    /\ hubspot.inflight > 0
    /\ LET h == hubspot
       IN hubspot' =
            [h EXCEPT !.hubspotScriptLoaded = TRUE,
                      !.hubspotScriptLoading = FALSE,
                      !.hbspt = @ \/ defines,
                      !.inflight = @ - 1, !.onloads = @ + 1,
                      !.emptyLoads = IF h.hbspt \/ defines THEN @ ELSE @ + 1,
                      !.invoked = @ \o h.hubspotLoadQueue,
                      !.hubspotLoadQueue = <<>>,
                      !.last = "onload"]
    /\ UNCHANGED <<auditVars, rerunVars, fetchLogos, moveConsulting, themeToggle, contact>>

\* lines 87-90: script.onerror; the queue is kept
onerror ==
    /\ hubspot.pc = "page"
    /\ hubspot.inflight > 0
    /\ hubspot' = [hubspot EXCEPT !.hubspotScriptLoading = FALSE,
                                  !.inflight = @ - 1, !.errors = @ + 1,
                                  !.last = "onerror"]
    /\ UNCHANGED <<auditVars, rerunVars, fetchLogos, moveConsulting, themeToggle, contact>>

\* ---------------------------------------------------------------------
\* theme toggle
\* ---------------------------------------------------------------------

Themes == {"light", "dark"}

\* lines 4-5 before DOMContentLoaded: the system colour scheme, what
\* localStorage holds under THEME_KEY, whether localStorage throws, and
\* a document and a button without the attributes the script sets
InitThemeToggle ==
    \E sys \in Themes, v \in Themes \cup {"none", "auto"}, th \in BOOLEAN :
        themeToggle = [pc |-> "loading", system |-> sys, stored |-> v,
                       storageThrows |-> th, dataTheme |-> "none",
                       ariaPressed |-> "unset", themeState |-> "unset"]

\* lines 12-18: the stored theme, "none" for null
getSavedTheme(t) ==
    IF ~t.storageThrows /\ t.stored \in Themes THEN t.stored ELSE "none"

\* lines 41-68: the button shows the given theme, or the system theme
\* (lines 6-10) when given null
syncToggleUI(t, theme) ==
    LET effective == IF theme # "none" THEN theme ELSE t.system
    IN [t EXCEPT !.ariaPressed = IF effective = "light" THEN "true" ELSE "false",
                 !.themeState = IF effective = "light" THEN "light" ELSE "dark"]

\* lines 20-39: setTheme(theme, {persist}); a throwing localStorage
\* leaves the stored value alone
setTheme(t, theme, persist) ==
    LET keep == ~persist \/ t.storageThrows
    IN syncToggleUI([t EXCEPT !.dataTheme = theme,
                              !.stored = IF keep THEN @ ELSE theme],
                    theme)

\* lines 110-114: DOMContentLoaded; initTheme applies the saved theme or
\* none, and the change and click handlers are registered
initTheme ==
    /\ themeToggle.pc = "loading"
    /\ themeToggle' =
         [setTheme(themeToggle, getSavedTheme(themeToggle), FALSE)
            EXCEPT !.pc = "ready"]
    /\ UNCHANGED <<auditVars, rerunVars, fetchLogos, moveConsulting, hubspot, contact>>

\* lines 93-100: a click on the button
themeClick ==
    /\ themeToggle.pc = "ready"
    /\ LET t == themeToggle
           effective == IF t.dataTheme # "none" THEN t.dataTheme ELSE t.system
       IN themeToggle' =
            setTheme(t, IF effective = "light" THEN "dark" ELSE "light", TRUE)
    /\ UNCHANGED <<auditVars, rerunVars, fetchLogos, moveConsulting, hubspot, contact>>

\* lines 81-83: the system colour scheme changes and the handler runs
systemChange ==
    /\ themeToggle.pc = "ready"
    /\ LET t == [themeToggle EXCEPT
                   !.system = IF @ = "light" THEN "dark" ELSE "light"]
       IN themeToggle' =
            IF getSavedTheme(t) = "none" THEN syncToggleUI(t, "none") ELSE t
    /\ UNCHANGED <<auditVars, rerunVars, fetchLogos, moveConsulting, hubspot, contact>>

\* ---------------------------------------------------------------------
\* api/contact.js
\* ---------------------------------------------------------------------

\* the environment variables the handler insists on (line 33)
RequiredEnv == {"SMTP_HOST", "SMTP_USER", "SMTP_PASS", "CONTACT_TO_EMAIL"}

\* length of a body field: -1 stands for a value without a length
\* property (undefined, a number), for which `.length > n` is false
FieldValues(limit) ==
    {[truthy |-> FALSE, length |-> -1], [truthy |-> FALSE, length |-> 0],
     [truthy |-> TRUE, length |-> -1]}
      \cup [truthy : {TRUE}, length : {1, limit, limit + 1}]

\* one request reaching the handler: its method, the three body fields
\* and the environment of the function
InitContact ==
    \E m \in {"POST", "GET"}, n \in FieldValues(200), e \in FieldValues(200),
       msg \in FieldValues(5000), env \in SUBSET RequiredEnv :
        contact = [pc |-> "request", method |-> m, name |-> n, email |-> e,
                   message |-> msg, env |-> env, res |-> <<>>, mails |-> 0]

Reply(c, status, error) ==
    [c EXCEPT !.pc = "done",
              !.res = Append(@, [status |-> status, error |-> error])]

\* lines 5-63 without the configuration test of lines 33-37
handler_no_config_test ==
    /\ contact.pc = "request"
    /\ LET c == contact
       IN contact' =
            IF c.method # "POST" THEN Reply(c, 405, "Method not allowed")
            ELSE IF ~c.name.truthy \/ ~c.email.truthy \/ ~c.message.truthy
                 THEN Reply(c, 400, "Missing required fields: name, email, message")
            ELSE IF c.name.length > 200 \/ c.email.length > 200
                      \/ c.message.length > 5000
                 THEN Reply(c, 413, "Payload too large")
            ELSE [c EXCEPT !.pc = "sendMail", !.mails = @ + 1]
    /\ UNCHANGED <<auditVars, rerunVars, fetchLogos, moveConsulting, hubspot, themeToggle>>

\* lines 5-63: the handler up to the call of transporter.sendMail
handler ==
    /\ contact.pc = "request"
    /\ LET c == contact
       IN contact' =
            IF c.method # "POST" THEN Reply(c, 405, "Method not allowed")
            ELSE IF ~c.name.truthy \/ ~c.email.truthy \/ ~c.message.truthy
                 THEN Reply(c, 400, "Missing required fields: name, email, message")
            ELSE IF c.name.length > 200 \/ c.email.length > 200
                      \/ c.message.length > 5000
                 THEN Reply(c, 413, "Payload too large")
            ELSE IF ~(RequiredEnv \subseteq c.env)
                 THEN Reply(c, 500, "Server email configuration missing")
            ELSE [c EXCEPT !.pc = "sendMail", !.mails = @ + 1]
    /\ UNCHANGED <<auditVars, rerunVars, fetchLogos, moveConsulting, hubspot, themeToggle>>

\* lines 63-68: the promise of sendMail settles
sendMail(fulfilled) ==
    /\ contact.pc = "sendMail"
    /\ contact' = IF fulfilled THEN Reply(contact, 200, "")
                  ELSE Reply(contact, 500, "Failed to send message")
    /\ UNCHANGED <<auditVars, rerunVars, fetchLogos, moveConsulting, hubspot, themeToggle>>

\* ---------------------------------------------------------------------
\* the programs other than the audit runners, one of them per behaviour
\* ---------------------------------------------------------------------

Programs == {"fetch-logos", "move-consulting", "hubspot", "theme", "contact"}

InitTools ==
    /\ InitRun("devaudit", <<>>, {}, AllCmds)
    /\ RerunIdle
    /\ \E p \in Programs :
        /\ IF p = "fetch-logos" THEN InitFetchLogos ELSE fetchLogos = Off
        /\ IF p = "move-consulting" THEN InitMoveConsulting ELSE moveConsulting = Off
        /\ IF p = "hubspot" THEN InitHubspot ELSE hubspot = Off
        /\ IF p = "theme" THEN InitThemeToggle ELSE themeToggle = Off
        /\ IF p = "contact" THEN InitContact ELSE contact = Off

NextTools ==
    \/ fl_mkdir
    \/ fl_parse_arg
    \/ fetch_entry
    \/ \E done \in BOOLEAN, partial \in BOOLEAN : download_attempt(done, partial)
    \/ download_sleep
    \/ fl_summary
    \/ main_setup
    \/ main_move
    \/ main_finish
    \/ \E name \in HUBSPOT_FORMS \cup {"other"}, target \in BOOLEAN, t \in BOOLEAN :
         renderHubspotForm(name, target, t)
    \/ \E defines \in BOOLEAN : onload(defines)
    \/ onerror
    \/ initTheme
    \/ themeClick
    \/ systemChange
    \/ handler
    \/ \E fulfilled \in BOOLEAN : sendMail(fulfilled)

SpecTools == InitTools /\ [][NextTools]_vars

\* C23: a run of fetch-logos.sh in which --dry-run was given makes no
\* download attempt and leaves the tree as it found it: assets/logos is
\* not created, no logo file and no .tmp file is written.
C23_DryRunChangesNothing ==
    (fetchLogos.pc # "off" /\ fetchLogos.DRY_RUN = 1) =>
        /\ fetchLogos.dir = fetchLogos.dir0
        /\ fetchLogos.dest = fetchLogos.dest0
        /\ fetchLogos.tmp = {}
        /\ \A n \in 1..MaxLogos : fetchLogos.hist[n] = <<>>

\* the attempts (not the sleeps) recorded for entry n
Attempts(n) ==
    {k \in DOMAIN fetchLogos.hist[n] : fetchLogos.hist[n][k][1] # "sleep"}

\* C28: once download_with_retry has returned from its loop for a logo,
\* it made at most MAX_RETRIES attempts, numbered 1, 2, ...; between two
\* consecutive attempts it slept once, 2 seconds the first time and
\* twice the previous delay each next time, and it did not sleep after
\* the last attempt; it returned success exactly when its last attempt
\* succeeded (no attempt follows a success) and failure only after
\* MAX_RETRIES failed attempts; the destination holds the new download
\* after a success and what it held before after a failure, partial data
\* going to "$dest.tmp" only; and as long as --force is not set an
\* existing destination keeps its content.
C28_RetryBackoffAtomicReplace ==
    fetchLogos.pc # "off" =>
      \A n \in 1..MaxLogos :
        LET h == fetchLogos.hist[n]
            r == fetchLogos.ret[n]
            max == Retries(fetchLogos.MAX_RETRIES)
        IN /\ r \in {"ok", "gave-up"} =>
                /\ Cardinality(Attempts(n)) <= max
                /\ \A k \in DOMAIN h :
                     IF k % 2 = 1
                     THEN /\ h[k][1] # "sleep"
                          /\ h[k][2] = (k + 1) \div 2
                          /\ (h[k][1] = "ok") = (k = Len(h) /\ r = "ok")
                     ELSE h[k] = <<"sleep", 2 ^ (k \div 2)>>
                /\ h # <<>> => Len(h) % 2 = 1
                /\ r = "ok" => h # <<>> /\ fetchLogos.dest[n] = "new"
                /\ r = "gave-up" =>
                     /\ Cardinality(Attempts(n)) = max
                     /\ fetchLogos.dest[n] = fetchLogos.dest0[n]
           /\ fetchLogos.dest[n] \in {fetchLogos.dest0[n], "new"}
           /\ fetchLogos.dest[n] = "new" => r = "ok"
           /\ (fetchLogos.dest0[n] # "absent" /\ fetchLogos.FORCE = 0) =>
                fetchLogos.dest[n] = fetchLogos.dest0[n]

\* a run with --force that gave up on one logo after three attempts and
\* two sleeps, leaving the old file, and replaced another old file by a
\* download that succeeded at the second attempt
C28_Witness ==
    /\ fetchLogos.pc = "exited"
    /\ fetchLogos.FORCE = 1
    /\ \E n \in 1..MaxLogos :
        /\ fetchLogos.ret[n] = "gave-up"
        /\ Len(fetchLogos.hist[n]) = 5
        /\ fetchLogos.dest[n] = "old"
        /\ n \in fetchLogos.tmp
    /\ \E n \in 1..MaxLogos :
        /\ fetchLogos.ret[n] = "ok"
        /\ Len(fetchLogos.hist[n]) = 3
        /\ fetchLogos.dest0[n] = "old"
        /\ fetchLogos.dest[n] = "new"

\* C24: in a run of move-consulting.sh whose first argument is --check
\* the site tree is at every step what it was at the start: no
\* consulting or backup directory, moved-pages list, landing page or
\* backup is created, no page is moved or edited, index.html is not
\* edited.
C24_CheckChangesNothing ==
    (moveConsulting.pc # "off" /\ moveConsulting.argv # <<>>
       /\ moveConsulting.argv[1] = "--check") =>
        moveConsulting.tree = moveConsulting.tree0

\* a finished --check run on a tree with a page to move that needs the
\* robots tag and the path rewrite, with index.html linking to it, and
\* with no consulting directory
C24_Witness ==
    /\ moveConsulting.pc = "exited"
    /\ moveConsulting.argv # <<>>
    /\ moveConsulting.argv[1] = "--check"
    /\ moveConsulting.MODE = "check"
    /\ ~moveConsulting.tree0.cdir
    /\ moveConsulting.tree0.index.exists
    /\ \E n \in Range(Pages) :
        /\ moveConsulting.tree0.root[n].exists
        /\ moveConsulting.tree0.root[n].robots = "none"
        /\ moveConsulting.tree0.root[n].rel

\* C25: when an --apply run has ended, every page now in consulting/
\* has a robots meta tag whose content is noindex,follow.
C25_MovedPagesNoindex ==
    (moveConsulting.pc = "exited" /\ moveConsulting.MODE = "apply") =>
        \A n \in Range(Pages) :
            moveConsulting.tree.cpages[n].exists =>
                moveConsulting.tree.cpages[n].robots = "noindex,follow"

C27_CallbacksOnceInOrder ==
    hubspot.pc # "off" =>
        /\ \A j, k \in DOMAIN hubspot.invoked :
              j < k => hubspot.invoked[j] < hubspot.invoked[k]
        /\ hubspot.invoked # <<>> => hubspot.onloads >= 1
        /\ hubspot.last = "onload" =>
              /\ hubspot.hubspotLoadQueue = <<>>
              /\ Range(hubspot.invoked) = 1..hubspot.calls

\* an onload that ran three queued callbacks, the first of them
\* throwing, after an earlier load had failed
C27_Witness ==
    /\ hubspot.pc = "page"
    /\ hubspot.last = "onload"
    /\ hubspot.errors = 1
    /\ hubspot.onloads = 1
    /\ hubspot.invoked = <<1, 2, 3>>
    /\ 1 \in hubspot.throws

\* the document's data-theme attribute when set, the system theme
\* otherwise
EffectiveTheme(t) == IF t.dataTheme # "none" THEN t.dataTheme ELSE t.system

ToggleReflectsTheme ==
    themeToggle.pc = "ready" =>
        /\ themeToggle.themeState = EffectiveTheme(themeToggle)
        /\ themeToggle.ariaPressed =
             (IF EffectiveTheme(themeToggle) = "light" THEN "true" ELSE "false")

ClickFlips ==
    themeClick => EffectiveTheme(themeToggle') # EffectiveTheme(themeToggle)

\* C29: from initialization on, after every click and every system
\* colour-scheme change, the button's data-theme-state is the effective
\* theme and its aria-pressed says whether that theme is light, also
\* when localStorage throws; and every click changes the effective
\* theme to the other one.
C29_ToggleReflectsEffectiveTheme ==
    []ToggleReflectsTheme /\ [][ClickFlips]_vars

\* the request has all three fields, none longer than its limit
FieldsAccepted ==
    /\ contact.name.truthy /\ contact.email.truthy /\ contact.message.truthy
    /\ ~(contact.name.length > 200) /\ ~(contact.email.length > 200)
    /\ ~(contact.message.length > 5000)

\* C30: a request gets at most one response, and exactly one once the
\* handler is done; sendMail is called at most once and only for a POST
\* with all three fields within 200/200/5000 and a complete SMTP
\* configuration; a response other than 200 or "Failed to send message"
\* is 405 for another method, else 400 for a missing field, else 413 for
\* a field over its limit, else 500 for an incomplete configuration, and
\* is given without a call of sendMail; 200 and the 500 of a failed send
\* are given only after sendMail was called.
C30_OneResponseMailOnlyWhenValid ==
    contact.pc # "off" =>
        /\ Len(contact.res) = (IF contact.pc = "done" THEN 1 ELSE 0)
        /\ contact.mails <= 1
        /\ contact.mails = 1 =>
              /\ contact.method = "POST"
              /\ FieldsAccepted
              /\ RequiredEnv \subseteq contact.env
        /\ contact.pc = "done" =>
              LET r == contact.res[1]
              IN /\ (r.status = 405) = (contact.method # "POST")
                 /\ (r.status = 400) =
                      (contact.method = "POST" /\ ~(contact.name.truthy
                         /\ contact.email.truthy /\ contact.message.truthy))
                 /\ (r.status = 413) =
                      /\ contact.method = "POST"
                      /\ contact.name.truthy /\ contact.email.truthy
                      /\ contact.message.truthy
                      /\ ~FieldsAccepted
                 /\ (r.status = 500 /\ r.error = "Server email configuration missing") =
                      /\ contact.method = "POST"
                      /\ FieldsAccepted
                      /\ ~(RequiredEnv \subseteq contact.env)
                 /\ r.status \in {405, 400, 413, 500, 200}
                 /\ (r.status = 200 \/ r.error = "Failed to send message") =
                      (contact.mails = 1)

\* a POST with fields exactly at the limits answered 200 after the mail
\* was sent
C30_Witness ==
    /\ contact.pc = "done"
    /\ contact.res[1].status = 200
    /\ contact.mails = 1
    /\ contact.name.length = 200
    /\ contact.email.length = 200
    /\ contact.message.length = 5000

====
